---- MODULE Spec2Model ----
(***************************************************************************)
(* Ledger and token-operation engine of the Oureum backend.                *)
(*                                                                         *)
(* The relational store is modelled table by table (users, rm_balances,    *)
(* oumg_balances, token_ops).  Every request is a process that runs the    *)
(* handler's statements one `await` at a time; statements issued on a      *)
(* checked-out client between BEGIN and COMMIT write to a private write    *)
(* set that COMMIT publishes and ROLLBACK discards, and they hold the row  *)
(* locks PostgreSQL takes for UPDATE / INSERT until the transaction ends.  *)
(*                                                                         *)
(* Units.  Money is counted in cents (balance_myr, amount_myr and rm_spent *)
(* are NUMERIC(18,2)), prices in cents per gram, grams in units of         *)
(* 1/GramScale gram (the resolution of the gram columns).  A JavaScript    *)
(* product grams * pricePerGram is therefore a number of 1/GramScale cents *)
(* and is rounded by the store when it is assigned to a money column.      *)
(***************************************************************************)
EXTENDS Integers, Sequences, FiniteSets, TLC

(* ------------------------------ bounds -------------------------------- *)
MaxBal == 2
MaxDebt == 1
MaxOps == 2
ConcMaxOps == 1
GramScale == 2
MaxSnaps == 2
MaxClock == 2
MaxFetches == 1

Procs == {1, 2}
Wallets == {"0xaa", "0xAA"}
UserIdInputs == {1, 2}
GramInputs == {1, GramScale}
PriceInputs == {1, 2}
DeltaInputs == {-1, 1}
NoTx == "null"
ChainTx == "0xchain"
UserTx == "0xuser"

VARIABLES users, rm_balances, oumg_balances, token_ops, proc, applied,
          price_snapshots, vendor_calls, clock, PRICE_MODE, pproc,
          redemptions, admin_audit_logs, rproc,
          http, chain_paused, contract_state, cproc, conns

vars == <<users, rm_balances, oumg_balances, token_ops, proc, applied,
          price_snapshots, vendor_calls, clock, PRICE_MODE, pproc,
          redemptions, admin_audit_logs, rproc,
          http, chain_paused, contract_state, cproc, conns>>
infra == <<http, chain_paused, contract_state, cproc, conns>>
backoffice == <<redemptions, admin_audit_logs, rproc>>
db == <<users, rm_balances, oumg_balances, token_ops>>
ledger == <<users, rm_balances, oumg_balances, token_ops, proc, applied>>
pricing == <<price_snapshots, vendor_calls, clock, PRICE_MODE, pproc>>

(* ------------------------------ helpers ------------------------------- *)
\* String.prototype.toLowerCase on the wallet inputs.
\* A wallet stored as typed.
KeepCase(w) == w
ToLowerCase(w) == IF w = "0xAA" THEN "0xaa" ELSE w

Abs(n) == IF n < 0 THEN -n ELSE n

\* n / d rounded to the nearest integer, ties away from zero: PostgreSQL's
\* rounding of a numeric value assigned to a NUMERIC(p,s) column.
RoundHalfAway(n, d) ==
  LET q == (2 * Abs(n) + d) \div (2 * d)
  IN IF n < 0 THEN -q ELSE q

\* A money column that would drop the excess digits instead of rounding.
NumericMyrTruncated(sub) == IF sub < 0 THEN -(Abs(sub) \div GramScale) ELSE sub \div GramScale
\* A value of sub 1/GramScale cents stored in a NUMERIC(18,2) column.
NumericMyr(sub) == RoundHalfAway(sub, GramScale)

\* grams * pricePerGram, in 1/GramScale cents.
Mul(g, price) == g * price

\* The rows of a table keyed by user_id, as a set holding the balance (empty
\* when the user has no row).
RowOf(table, uid) == IF uid \in DOMAIN table THEN {table[uid]} ELSE {}

UserIdOfWallet(w) == {i \in DOMAIN users : users[i].wallet = w}

EmptyWrites ==
  [rm |-> {}, oumg |-> {}, spent |-> {}, ops |-> << >>, user |-> {}]

IdleProc ==
  [op |-> "idle", pc |-> "idle", wallet |-> "", uid |-> 0, g |-> 0,
   price |-> 0, amt |-> 0, gRaw |-> {}, amtRaw |-> {}, txh |-> NoTx,
   opId |-> 0, out |-> "", ret |-> 0, wr |-> EmptyWrites]

Ready(p) == proc[p].pc \in {"idle", "done"}

\* The value a statement of p's transaction reads for a row: its own pending
\* write if it made one, else the committed row.
Visible(pending, table, uid) == IF pending # {} THEN pending ELSE RowOf(table, uid)

\* A store whose writers would not wait for each other.
RowFreeNoLock(p, k, uid) == TRUE
\* The row lock of UPDATE / INSERT: p may write row k of user uid only when no
\* other open transaction holds a pending write on it.
RowFree(p, k, uid) ==
  \A q \in Procs \ {p} : proc[q].uid = uid => proc[q].wr[k] = {}

\* The request ends: the response is sent with outcome out.
Finish(p, out, ret) ==
  proc' = [proc EXCEPT ![p] =
             [IdleProc EXCEPT !.op = proc[p].op, !.pc = "done", !.out = out,
                              !.ret = ret]]


\* A balance row after COMMIT publishes a pending write.
Publish(table, uid, pending) ==
  IF pending = {} THEN table
  ELSE [u \in DOMAIN table \cup {uid} |->
          IF u = uid THEN CHOOSE v \in pending : TRUE ELSE table[u]]

PublishSpent(uid, pending) ==
  IF pending = {} THEN users
  ELSE [users EXCEPT ![uid].rm_spent = CHOOSE v \in pending : TRUE]

\* await client.query("COMMIT")
Commit(p) ==
  /\ rm_balances' = Publish(rm_balances, proc[p].uid, proc[p].wr.rm)
  /\ oumg_balances' = Publish(oumg_balances, proc[p].uid, proc[p].wr.oumg)
  /\ users' = PublishSpent(proc[p].uid, proc[p].wr.spent)
  /\ token_ops' = token_ops \o proc[p].wr.ops

\* A catch block that ends the transaction without undoing its statements.
RollbackKeepsWrites(p, msg) == Finish(p, msg, 0) /\ Commit(p)
\* catch (err) { await client.query("ROLLBACK"); throw err; }
Rollback(p, msg) == Finish(p, msg, 0) /\ UNCHANGED db

(* ------------------------- ensureUserByWallet ------------------------- *)
StartEnsureUser(p, w) ==
  /\ Ready(p)
  /\ proc' = [proc EXCEPT ![p] =
       [IdleProc EXCEPT !.op = "ensureUserByWallet", !.pc = "eu_upsert",
                        !.wallet = ToLowerCase(w)]]
  /\ UNCHANGED db

\* A users table without the unique index on wallet_address.
NoConflict(w) == {}
\* ON CONFLICT (wallet_address): the row the unique index finds for w.
ConflictingUser(w) == UserIdOfWallet(w)

\* INSERT INTO users ... ON CONFLICT (wallet_address) DO UPDATE ... RETURNING id
EnsureUpsertUser(p) ==
  /\ proc[p].pc = "eu_upsert"
  /\ LET w == proc[p].wallet
         found == ConflictingUser(w)
         id == IF found # {} THEN CHOOSE i \in found : TRUE
               ELSE Cardinality(DOMAIN users) + 1
     IN /\ users' = IF found # {} THEN users
                    ELSE [i \in DOMAIN users \cup {id} |->
                            IF i = id THEN [wallet |-> w, rm_spent |-> 0]
                            ELSE users[i]]
        /\ proc' = [proc EXCEPT ![p].pc = "eu_rm", ![p].uid = id]
  /\ UNCHANGED <<rm_balances, oumg_balances, token_ops>>

\* INSERT INTO rm_balances (user_id, balance_myr) VALUES ($1, 0) ON CONFLICT DO NOTHING
EnsureRmRow(p) ==
  /\ proc[p].pc = "eu_rm"
  /\ RowFree(p, "rm", proc[p].uid)
  /\ rm_balances' = Publish(rm_balances, proc[p].uid,
                            IF proc[p].uid \in DOMAIN rm_balances THEN {} ELSE {0})
  /\ proc' = [proc EXCEPT ![p].pc = "eu_oumg"]
  /\ UNCHANGED <<users, oumg_balances, token_ops>>

\* INSERT INTO oumg_balances (user_id, balance_g) VALUES ($1, 0) ON CONFLICT DO NOTHING
EnsureOumgRow(p) ==
  /\ proc[p].pc = "eu_oumg"
  /\ RowFree(p, "oumg", proc[p].uid)
  /\ oumg_balances' = Publish(oumg_balances, proc[p].uid,
                              IF proc[p].uid \in DOMAIN oumg_balances THEN {} ELSE {0})
  /\ IF proc[p].op = "ensureUserByWallet"
     THEN Finish(p, "ok", proc[p].uid)
     ELSE proc' = [proc EXCEPT ![p].pc = "bm_rm"]
  /\ UNCHANGED <<users, rm_balances, token_ops>>

(* ------------------ adjustRmBalance / adjustOumgBalance ---------------- *)
StartAdjustRm(p, uid, delta) ==
  /\ Ready(p)
  /\ proc' = [proc EXCEPT ![p] =
       [IdleProc EXCEPT !.op = "adjustRmBalance", !.pc = "ar_insert",
                        !.uid = uid, !.amt = delta]]
  /\ UNCHANGED db

\* BEGIN; INSERT INTO rm_balances ... ON CONFLICT (user_id) DO NOTHING
\* (rm_balances.user_id REFERENCES users(id): no users row, no insert).
AdjustRmInsert(p) ==
  /\ proc[p].pc = "ar_insert"
  /\ RowFree(p, "rm", proc[p].uid)
  /\ IF proc[p].uid \notin DOMAIN users
     THEN Rollback(p, "error")
     ELSE /\ proc' = [proc EXCEPT ![p].pc = "ar_update",
                 ![p].wr.rm = IF proc[p].uid \in DOMAIN rm_balances THEN {} ELSE {0}]
          /\ UNCHANGED db

\* UPDATE rm_balances SET balance_myr = balance_myr + $1 WHERE user_id = $2
\* RETURNING balance_myr
AdjustRmUpdate(p) ==
  /\ proc[p].pc = "ar_update"
  /\ RowFree(p, "rm", proc[p].uid)
  /\ proc' = [proc EXCEPT ![p].pc = "ar_commit",
        ![p].wr.rm = {b + proc[p].amt :
                        b \in Visible(proc[p].wr.rm, rm_balances, proc[p].uid)}]
  /\ UNCHANGED db

\* COMMIT; if (!rows.length) throw ...; return Number(rows[0].balance_myr)
AdjustRmCommit(p) ==
  /\ proc[p].pc = "ar_commit"
  /\ Commit(p)
  /\ IF proc[p].wr.rm = {}
     THEN Finish(p, "error", 0)
     ELSE Finish(p, "ok", CHOOSE v \in proc[p].wr.rm : TRUE)

StartAdjustOumg(p, uid, delta) ==
  /\ Ready(p)
  /\ proc' = [proc EXCEPT ![p] =
       [IdleProc EXCEPT !.op = "adjustOumgBalance", !.pc = "ao_insert",
                        !.uid = uid, !.amt = delta]]
  /\ UNCHANGED db

AdjustOumgInsert(p) ==
  /\ proc[p].pc = "ao_insert"
  /\ RowFree(p, "oumg", proc[p].uid)
  /\ IF proc[p].uid \notin DOMAIN users
     THEN Rollback(p, "error")
     ELSE /\ proc' = [proc EXCEPT ![p].pc = "ao_update",
                 ![p].wr.oumg = IF proc[p].uid \in DOMAIN oumg_balances THEN {} ELSE {0}]
          /\ UNCHANGED db

AdjustOumgUpdate(p) ==
  /\ proc[p].pc = "ao_update"
  /\ RowFree(p, "oumg", proc[p].uid)
  /\ proc' = [proc EXCEPT ![p].pc = "ao_commit",
        ![p].wr.oumg = {b + proc[p].amt :
                          b \in Visible(proc[p].wr.oumg, oumg_balances, proc[p].uid)}]
  /\ UNCHANGED db

AdjustOumgCommit(p) ==
  /\ proc[p].pc = "ao_commit"
  /\ Commit(p)
  /\ IF proc[p].wr.oumg = {}
     THEN Finish(p, "error", 0)
     ELSE Finish(p, "ok", CHOOSE v \in proc[p].wr.oumg : TRUE)

(* -------------------------- buyAndMint -------------------------------- *)
TokenOp(uid, type, g, sub, price, txh) ==
  [user_id |-> uid, op_type |-> type, grams |-> g, amount_myr |-> NumericMyr(sub),
   price_myr_per_g |-> price, tx_hash |-> txh]

StartBuyAndMint(p, uid, g, price) ==
  /\ Ready(p)
  /\ proc' = [proc EXCEPT ![p] =
       [IdleProc EXCEPT !.op = "buyAndMint", !.pc = "bm_rm", !.uid = uid,
                        !.g = g, !.price = price]]
  /\ UNCHANGED db

\* A debit that would not look at the sign of the returned balance.
InsufficientNever(newBal) == FALSE
\* if (Number(res.rows[0].balance) < 0) throw new Error("Insufficient ... balance")
Insufficient(newBal) == newBal < 0

\* BEGIN; UPDATE rm_balances SET balance_myr = balance_myr - $1 WHERE user_id = $2
\* RETURNING balance_myr; rowCount === 0 and balance < 0 throw.
BuyDebitRm(p) ==
  /\ proc[p].pc = "bm_rm"
  /\ LET uid == proc[p].uid
         spend == Mul(proc[p].g, proc[p].price)
     IN IF uid \notin DOMAIN rm_balances
        THEN Rollback(p, "User RM balance missing")
        ELSE /\ RowFree(p, "rm", uid)
             /\ LET newRm == NumericMyr(rm_balances[uid] * GramScale - spend)
                IN IF Insufficient(newRm)
                   THEN Rollback(p, "Insufficient RM balance")
                   ELSE /\ proc' = [proc EXCEPT ![p].pc = "bm_oumg",
                                                ![p].wr.rm = {newRm}]
                        /\ UNCHANGED db

\* UPDATE oumg_balances SET balance_g = balance_g + $1 WHERE user_id = $2
BuyCreditOumg(p) ==
  /\ proc[p].pc = "bm_oumg"
  /\ LET uid == proc[p].uid
     IN IF uid \notin DOMAIN oumg_balances
        THEN Rollback(p, "User OUMG balance missing")
        ELSE /\ RowFree(p, "oumg", uid)
             /\ proc' = [proc EXCEPT ![p].pc = "bm_spent",
                           ![p].wr.oumg = {oumg_balances[uid] + proc[p].g}]
             /\ UNCHANGED db

\* UPDATE users SET rm_spent = COALESCE(rm_spent, 0) + $1 WHERE id = $2
BuyAccumulateSpent(p) ==
  /\ proc[p].pc = "bm_spent"
  /\ LET uid == proc[p].uid
         spend == Mul(proc[p].g, proc[p].price)
     IN /\ RowFree(p, "spent", uid)
        /\ proc' = [proc EXCEPT ![p].pc = "bm_log",
              ![p].wr.spent = IF uid \in DOMAIN users
                              THEN {NumericMyr(users[uid].rm_spent * GramScale + spend)}
                              ELSE {}]
        /\ UNCHANGED db

\* INSERT INTO token_ops (...) VALUES ($1, ..., 'BUY_MINT', grams, spend, price, note)
BuyLogOp(p) ==
  /\ proc[p].pc = "bm_log"
  /\ proc' = [proc EXCEPT ![p].pc = "bm_commit",
        ![p].wr.ops = <<TokenOp(proc[p].uid, "BUY_MINT", proc[p].g,
                                Mul(proc[p].g, proc[p].price), proc[p].price, NoTx)>>]
  /\ UNCHANGED db

\* COMMIT; return { opId, newRm, newOumg }
BuyCommit(p) ==
  /\ proc[p].pc = "bm_commit"
  /\ Commit(p)
  /\ IF proc[p].op = "buyAndMint"
     THEN Finish(p, "ok", CHOOSE v \in proc[p].wr.rm : TRUE)
     ELSE proc' = [proc EXCEPT ![p].pc = "mo_attach",
                     ![p].opId = Len(token_ops) + 1, ![p].wr = EmptyWrites]

(* -------------------------- sellAndBurn ------------------------------- *)
StartSellAndBurn(p, uid, g, price) ==
  /\ Ready(p)
  /\ proc' = [proc EXCEPT ![p] =
       [IdleProc EXCEPT !.op = "sellAndBurn", !.pc = "sb_oumg", !.uid = uid,
                        !.g = g, !.price = price]]
  /\ UNCHANGED db

\* BEGIN; UPDATE oumg_balances SET balance_g = balance_g - $1 WHERE user_id = $2
\* RETURNING balance_g; rowCount === 0 and balance < 0 throw.
SellDebitOumg(p) ==
  /\ proc[p].pc = "sb_oumg"
  /\ LET uid == proc[p].uid
     IN IF uid \notin DOMAIN oumg_balances
        THEN Rollback(p, "User OUMG balance missing")
        ELSE /\ RowFree(p, "oumg", uid)
             /\ LET newG == oumg_balances[uid] - proc[p].g
                IN IF Insufficient(newG)
                   THEN Rollback(p, "Insufficient OUMG balance")
                   ELSE /\ proc' = [proc EXCEPT ![p].pc = "sb_rm",
                                                ![p].wr.oumg = {newG}]
                        /\ UNCHANGED db

\* UPDATE rm_balances SET balance_myr = balance_myr + $1 WHERE user_id = $2
SellCreditRm(p) ==
  /\ proc[p].pc = "sb_rm"
  /\ LET uid == proc[p].uid
         refund == Mul(proc[p].g, proc[p].price)
     IN IF uid \notin DOMAIN rm_balances
        THEN Rollback(p, "User RM balance missing")
        ELSE /\ RowFree(p, "rm", uid)
             /\ proc' = [proc EXCEPT ![p].pc = "sb_log",
                   ![p].wr.rm = {NumericMyr(rm_balances[uid] * GramScale + refund)}]
             /\ UNCHANGED db

\* INSERT INTO token_ops (...) VALUES ($1, ..., 'SELL_BURN', grams, refund, price, note)
SellLogOp(p) ==
  /\ proc[p].pc = "sb_log"
  /\ proc' = [proc EXCEPT ![p].pc = "sb_commit",
        ![p].wr.ops = <<TokenOp(proc[p].uid, "SELL_BURN", proc[p].g,
                                Mul(proc[p].g, proc[p].price), proc[p].price, NoTx)>>]
  /\ UNCHANGED db

\* COMMIT; return { opId, newRm, newOumg }
SellCommit(p) ==
  /\ proc[p].pc = "sb_commit"
  /\ Commit(p)
  /\ Finish(p, "ok", CHOOSE v \in proc[p].wr.rm : TRUE)

(* ---------------------- failures inside a transaction ------------------ *)
TxPcs == {"ar_update", "ar_commit", "ao_update", "ao_commit",
          "bm_oumg", "bm_spent", "bm_log", "bm_commit",
          "sb_rm", "sb_log", "sb_commit"}

\* Any statement of an open transaction may be refused by the store (connection
\* lost, constraint violated): the catch block rolls back and rethrows.
StatementFails(p) ==
  /\ proc[p].pc \in TxPcs
  /\ Rollback(p, "error")


(* ------------------------------ deadlock ------------------------------ *)
\* The row the next statement of p must lock ("" when it needs none).
WaitsFor(p) ==
  CASE proc[p].pc \in {"ar_insert", "ar_update", "bm_rm", "sb_rm", "eu_rm", "um_debit", "ub_credit"} -> "rm"
    [] proc[p].pc \in {"ao_insert", "ao_update", "bm_oumg", "sb_oumg", "eu_oumg", "um_credit", "ub_debit"} -> "oumg"
    [] proc[p].pc \in {"bm_spent", "um_spent"} -> "spent"
    [] OTHER -> ""

Holds(q, k, uid) == proc[q].uid = uid /\ proc[q].wr[k] # {}

\* PostgreSQL's deadlock detector: p waits for a row q holds while q waits for
\* a row p holds; p's statement fails and its catch block rolls back.
DeadlockAbort(p) ==
  /\ proc[p].pc \in TxPcs
  /\ WaitsFor(p) # ""
  /\ \E q \in Procs \ {p} :
       /\ Holds(q, WaitsFor(p), proc[p].uid)
       /\ WaitsFor(q) # ""
       /\ Holds(p, WaitsFor(q), proc[q].uid)
  /\ Rollback(p, "error")

(* ------------------------- chain collaborator ------------------------- *)
\* serverMintOumg / serverBurnOumg: returns the hash of the mined transaction
\* or throws (static call reverted, transaction not mined or reverted).
ChainOutcomes == {"mined", "throws"}

(* ------------------------------ userMint ------------------------------ *)
\* toFixedNum(amountMyr / buy, 6), in gram units.
GramsForAmount(amt, buy) == RoundHalfAway(amt * GramScale, buy)

StartUserMint(p, w, gramsRaw, amountRaw) ==
  /\ Ready(p)
  /\ proc' = [proc EXCEPT ![p] =
       [IdleProc EXCEPT !.op = "userMint", !.pc = "um_user",
                        !.wallet = ToLowerCase(w), !.gRaw = gramsRaw,
                        !.amtRaw = amountRaw]]
  /\ UNCHANGED db

\* getUserByWallet(wallet): SELECT ... FROM users WHERE wallet_address = $1
UserMintLookup(p) ==
  /\ proc[p].pc = "um_user"
  /\ LET found == UserIdOfWallet(proc[p].wallet)
     IN IF found = {}
        THEN Finish(p, "User not found", 0)
        ELSE proc' = [proc EXCEPT ![p].pc = "um_price",
                                  ![p].uid = CHOOSE i \in found : TRUE]
  /\ UNCHANGED db

\* let grams = typeof gramsRaw === "number" ? gramsRaw : null;
\* if (grams == null && amountMyr != null) grams = toFixedNum(amountMyr / buy, 6);
GramsOfRequest(gramsRaw, amountRaw, buy) ==
  IF gramsRaw # {} THEN gramsRaw
  ELSE {GramsForAmount(a, buy) : a \in amountRaw}

\* let amountMyr = typeof amountRaw === "number" ? amountRaw : null;
\* if (amountMyr == null && grams != null) amountMyr = toFixedNum(grams * buy, 2);
AmountOfRequest(gramsRaw, amountRaw, buy) ==
  IF amountRaw # {} THEN amountRaw
  ELSE {NumericMyr(Mul(g, buy)) : g \in gramsRaw}

\* price = await PriceService.getCurrentMyrPerGram(); derive grams / amountMyr;
\* reject a request with neither, or with a non-positive value.
UserMintPrice(p, buy) ==
  /\ proc[p].pc = "um_price"
  /\ LET gs == GramsOfRequest(proc[p].gRaw, proc[p].amtRaw, buy)
         as == AmountOfRequest(proc[p].gRaw, proc[p].amtRaw, buy)
     IN IF gs = {} /\ as = {}
        THEN Finish(p, "Provide grams or amountMyr", 0)
        ELSE IF (\E g \in gs : ~(g > 0)) \/ (\E a \in as : ~(a > 0))
        THEN Finish(p, "Invalid grams/amountMyr", 0)
        ELSE proc' = [proc EXCEPT ![p].pc = "um_check", ![p].price = buy,
                        ![p].g = CHOOSE g \in gs : TRUE,
                        ![p].amt = CHOOSE a \in as : TRUE]
  /\ UNCHANGED db

\* toNum(r.rows?.[0]?.balance, 0)
BalanceOrZero(table, uid) == IF uid \in DOMAIN table THEN table[uid] ELSE 0

\* SELECT balance_myr FROM rm_balances WHERE user_id = $1; rmBal < amountMyr -> 400
UserMintCheck(p) ==
  /\ proc[p].pc = "um_check"
  /\ IF BalanceOrZero(rm_balances, proc[p].uid) < proc[p].amt
     THEN Finish(p, "Insufficient RM balance", 0)
     ELSE proc' = [proc EXCEPT ![p].pc = "um_chain"]
  /\ UNCHANGED db

\* const txHash = await serverMintOumg(wallet, grams)
UserMintChain(p, outcome) ==
  /\ proc[p].pc = "um_chain"
  /\ IF outcome = "throws"
     THEN Finish(p, "chain call failed", 0)
     ELSE proc' = [proc EXCEPT ![p].pc = "um_debit", ![p].txh = ChainTx]
  /\ UNCHANGED db

\* An UPDATE ... SET balance = balance + delta WHERE user_id = $2 issued outside
\* any transaction: no row, no change.
UpdateBalance(table, uid, sub) ==
  IF uid \in DOMAIN table
  THEN [table EXCEPT ![uid] = NumericMyr(table[uid] * GramScale + sub)]
  ELSE table

\* query(UPDATE rm_balances SET balance_myr = balance_myr - $1 ...)
UserMintDebit(p) ==
  /\ proc[p].pc = "um_debit"
  /\ RowFree(p, "rm", proc[p].uid)
  /\ rm_balances' = UpdateBalance(rm_balances, proc[p].uid, -(proc[p].amt * GramScale))
  /\ proc' = [proc EXCEPT ![p].pc = "um_credit"]
  /\ UNCHANGED <<users, oumg_balances, token_ops>>

\* query(UPDATE oumg_balances SET balance_g = balance_g + $1 ...)
UserMintCredit(p) ==
  /\ proc[p].pc = "um_credit"
  /\ RowFree(p, "oumg", proc[p].uid)
  /\ oumg_balances' =
       IF proc[p].uid \in DOMAIN oumg_balances
       THEN [oumg_balances EXCEPT ![proc[p].uid] = @ + proc[p].g]
       ELSE oumg_balances
  /\ proc' = [proc EXCEPT ![p].pc = "um_spent"]
  /\ UNCHANGED <<users, rm_balances, token_ops>>

\* query(UPDATE users SET rm_spent = COALESCE(rm_spent,0) + $1 ...)
UserMintSpent(p) ==
  /\ proc[p].pc = "um_spent"
  /\ RowFree(p, "spent", proc[p].uid)
  /\ users' = IF proc[p].uid \in DOMAIN users
              THEN [users EXCEPT ![proc[p].uid].rm_spent = @ + proc[p].amt]
              ELSE users
  /\ proc' = [proc EXCEPT ![p].pc = "um_log"]
  /\ UNCHANGED <<rm_balances, oumg_balances, token_ops>>

\* query(INSERT INTO token_ops (...) VALUES ($1, 'BUY_MINT', grams, amountMyr, buy, txHash, ...))
UserMintLog(p) ==
  /\ proc[p].pc = "um_log"
  /\ token_ops' = Append(token_ops,
       TokenOp(proc[p].uid, "BUY_MINT", proc[p].g, proc[p].amt * GramScale,
               proc[p].price, proc[p].txh))
  /\ Finish(p, "ok", 0)
  /\ UNCHANGED <<users, rm_balances, oumg_balances>>

(* ------------------------------ userBurn ------------------------------ *)
\* if (!(grams > 0)) return 400 before anything else.
StartUserBurn(p, w, grams) ==
  /\ Ready(p)
  /\ proc' = [proc EXCEPT ![p] =
       IF grams > 0
       THEN [IdleProc EXCEPT !.op = "userBurn", !.pc = "ub_user",
                             !.wallet = ToLowerCase(w), !.g = grams]
       ELSE [IdleProc EXCEPT !.op = "userBurn", !.pc = "done",
                             !.out = "grams must be > 0"]]
  /\ UNCHANGED db

UserBurnLookup(p) ==
  /\ proc[p].pc = "ub_user"
  /\ LET found == UserIdOfWallet(proc[p].wallet)
     IN IF found = {}
        THEN Finish(p, "User not found", 0)
        ELSE proc' = [proc EXCEPT ![p].pc = "ub_price",
                                  ![p].uid = CHOOSE i \in found : TRUE]
  /\ UNCHANGED db

\* price = await PriceService.getCurrentMyrPerGram(); sell = user_sell_myr_per_g
UserBurnPrice(p, sell) ==
  /\ proc[p].pc = "ub_price"
  /\ proc' = [proc EXCEPT ![p].pc = "ub_check", ![p].price = sell]
  /\ UNCHANGED db

\* SELECT balance_g ...; gBal < grams -> 400; creditMyr = toFixedNum(grams * sell, 2)
UserBurnCheck(p) ==
  /\ proc[p].pc = "ub_check"
  /\ IF BalanceOrZero(oumg_balances, proc[p].uid) < proc[p].g
     THEN Finish(p, "Insufficient OUMG balance", 0)
     ELSE proc' = [proc EXCEPT ![p].pc = "ub_chain",
                     ![p].amt = NumericMyr(Mul(proc[p].g, proc[p].price))]
  /\ UNCHANGED db

\* const txHash = await serverBurnOumg(wallet, grams)
UserBurnChain(p, outcome) ==
  /\ proc[p].pc = "ub_chain"
  /\ IF outcome = "throws"
     THEN Finish(p, "chain call failed", 0)
     ELSE proc' = [proc EXCEPT ![p].pc = "ub_credit", ![p].txh = ChainTx]
  /\ UNCHANGED db

\* query(UPDATE rm_balances SET balance_myr = balance_myr + $1 ...)
UserBurnCredit(p) ==
  /\ proc[p].pc = "ub_credit"
  /\ RowFree(p, "rm", proc[p].uid)
  /\ rm_balances' = UpdateBalance(rm_balances, proc[p].uid, proc[p].amt * GramScale)
  /\ proc' = [proc EXCEPT ![p].pc = "ub_debit"]
  /\ UNCHANGED <<users, oumg_balances, token_ops>>

\* query(UPDATE oumg_balances SET balance_g = balance_g - $1 ...)
UserBurnDebit(p) ==
  /\ proc[p].pc = "ub_debit"
  /\ RowFree(p, "oumg", proc[p].uid)
  /\ oumg_balances' =
       IF proc[p].uid \in DOMAIN oumg_balances
       THEN [oumg_balances EXCEPT ![proc[p].uid] = @ - proc[p].g]
       ELSE oumg_balances
  /\ proc' = [proc EXCEPT ![p].pc = "ub_log"]
  /\ UNCHANGED <<users, rm_balances, token_ops>>

\* query(INSERT INTO token_ops (...) VALUES ($1, 'SELL_BURN', grams, creditMyr, sell, txHash, ...))
UserBurnLog(p) ==
  /\ proc[p].pc = "ub_log"
  /\ token_ops' = Append(token_ops,
       TokenOp(proc[p].uid, "SELL_BURN", proc[p].g, proc[p].amt * GramScale,
               proc[p].price, proc[p].txh))
  /\ Finish(p, "ok", 0)
  /\ UNCHANGED <<users, rm_balances, oumg_balances>>

(* ------------------------ mintOnchainController ------------------------ *)
\* Validations pass for every input drawn here (well-formed wallet, g > 0,
\* p > 0).  A supplied tx_hash is format-checked synchronously and used as is;
\* without one the server mints first.
StartMintOnchain(p, w, g, price, suppliedTx) ==
  /\ Ready(p)
  /\ proc' = [proc EXCEPT ![p] =
       [IdleProc EXCEPT !.op = "mintOnchain",
                        !.pc = IF suppliedTx THEN "eu_upsert" ELSE "mo_chain",
                        !.txh = IF suppliedTx THEN UserTx ELSE NoTx,
                        !.wallet = ToLowerCase(w), !.g = g, !.price = price]]
  /\ UNCHANGED db

\* finalTxHash = await serverMintOumg(wallet.toLowerCase(), g)
MintOnchainChain(p, outcome) ==
  /\ proc[p].pc = "mo_chain"
  /\ IF outcome = "throws"
     THEN Finish(p, "chain call failed", 0)
     ELSE proc' = [proc EXCEPT ![p].pc = "eu_upsert", ![p].txh = ChainTx]
  /\ UNCHANGED db

\* UPDATE token_ops SET tx_hash = $2 WHERE id = $1
UpdateTokenOpTxHash(opId, txHash) ==
  IF opId \in DOMAIN token_ops
  THEN [token_ops EXCEPT ![opId].tx_hash = txHash]
  ELSE token_ops

\* await updateTokenOpTxHash(opId, finalTxHash); res.json({ ok: true, ... })
MintOnchainAttach(p) ==
  /\ proc[p].pc = "mo_attach"
  /\ token_ops' = UpdateTokenOpTxHash(proc[p].opId, proc[p].txh)
  /\ Finish(p, "ok", 0)
  /\ UNCHANGED <<users, rm_balances, oumg_balances>>

(* --------------------------- serial reference --------------------------- *)
\* What a committing call asks of the rm balance, in 1/GramScale cents, and of
\* the oumg balance, in gram units, read off the call's arguments.
RmDeltaOf(c) ==
  CASE c.op = "adjustRmBalance" -> c.amt * GramScale
    [] c.op \in {"buyAndMint", "mintOnchain"} -> -Mul(c.g, c.price)
    [] c.op = "sellAndBurn" -> Mul(c.g, c.price)
    [] OTHER -> 0

OumgDeltaOf(c) ==
  CASE c.op = "adjustOumgBalance" -> c.amt
    [] c.op \in {"buyAndMint", "mintOnchain"} -> c.g
    [] c.op = "sellAndBurn" -> -c.g
    [] OTHER -> 0

CommitPcs == {"ar_commit", "ao_commit", "bm_commit", "sb_commit"}

\* The step is the COMMIT of p's transaction, with its UPDATEs having matched.
Commits(p) ==
  /\ proc[p].pc \in CommitPcs
  /\ proc'[p].pc # proc[p].pc
  /\ proc'[p].out # "error"

\* The reference ledger of one user: each committed call's deltas applied one
\* after the other in commit order (serialRm, serialOumg, every result stored
\* at the column's scale), and their plain sums (sumRm in 1/GramScale cents).
ZeroApplied == [serialRm |-> 0, serialOumg |-> 0, sumRm |-> 0, sumOumg |-> 0]

Track ==
  applied' =
    IF \E p \in Procs : Commits(p)
    THEN LET c == proc[CHOOSE p \in Procs : Commits(p)]
         IN [serialRm |-> NumericMyr(applied.serialRm * GramScale + RmDeltaOf(c)),
             serialOumg |-> applied.serialOumg + OumgDeltaOf(c),
             sumRm |-> applied.sumRm + RmDeltaOf(c),
             sumOumg |-> applied.sumOumg + OumgDeltaOf(c)]
    ELSE applied

(* ---------------------------- price engine ----------------------------- *)
\* Prices are integers in 1/PriceUnit MYR per gram (per ounce for a vendor
\* quote); round6 rounds to that grid.  NoPrice is SQL NULL / undefined.
PriceUnit == 100
Myr(n) == n * PriceUnit
NoPrice == -1
BUY_BPS == 100
SELL_BPS == 100
MANUAL_BASE == Myr(500)
\* 31.1034768 kept to one decimal, as a ratio.
OUNCE_TO_GRAM == [num |-> 311, den |-> 10]
PriceModes == {"manual", "auto"}
Callers == {"getCurrentMyrPerGram", "priceCron"}
NoSnap == [id |-> 0]
NoQuote == [myr_per_oz_buying |-> NoPrice, myr_per_oz_selling |-> NoPrice]

\* Number(x) when finite, null for an absent field.
toNum(x) == IF x >= 0 THEN x ELSE NoPrice
\* Math.round(n / d) for n >= 0, d > 0.
MathRound(n, d) == (2 * n + d) \div (2 * d)
\* round6 of the fraction n / d of a price unit.
round6(n, d) == MathRound(n, d)
avg6TakesFirst(a, b) == a
avg6(a, b) == round6(a + b, 2)

calcFromBaseNoBps(base, buyBps, sellBps) ==
  [buy |-> base, sell |-> base, spreadMYR |-> 0, spreadBps |-> 0]
calcFromBase(base, buyBps, sellBps) ==
  LET buy == round6(base * (10000 + buyBps), 10000)
      sell == round6(base * (10000 - sellBps), 10000)
      spreadMYR == Abs(buy - sell)
  IN [buy |-> buy, sell |-> sell, spreadMYR |-> spreadMYR,
      spreadBps |-> IF base > 0 THEN MathRound(spreadMYR * 10000, base) ELSE 0]

isCompleteNever(s) == FALSE
\* A completeness test that would accept any stored row.
isCompleteAnyRow(s) == s.id # 0
isCompleteSnap(s) ==
  s.id # 0 /\ s.buy_myr_per_g # NoPrice /\ s.sell_myr_per_g # NoPrice

normalizeFromSnapshot(s) ==
  LET base == IF s.computed_myr_per_g = NoPrice THEN 0 ELSE s.computed_myr_per_g
      buy == IF s.buy_myr_per_g # NoPrice THEN s.buy_myr_per_g ELSE base
      sell == IF s.sell_myr_per_g # NoPrice THEN s.sell_myr_per_g ELSE base
      spread == Abs(buy - sell)
  IN [source |-> s.source,
      price_myr_per_g |-> base,
      buy_myr_per_g |-> buy,
      sell_myr_per_g |-> sell,
      spread_myr_per_g |-> spread,
      spread_bps |-> IF base > 0 THEN MathRound(spread * 10000, base) ELSE 0,
      note |-> s.note,
      created_at |-> s.created_at]

\* The row INSERT ... RETURNING gives back: the next id, created_at = NOW().
SnapshotRow(source, buy, sell, computed, note) ==
  [id |-> Len(price_snapshots) + 1, source |-> source,
   buy_myr_per_g |-> buy, sell_myr_per_g |-> sell,
   computed_myr_per_g |-> computed, note |-> note, created_at |-> clock]
insertSnapshotOverwrite(row) ==
  price_snapshots' = IF price_snapshots = << >> THEN <<row>>
                     ELSE [price_snapshots EXCEPT ![Len(price_snapshots)] = row]
insertSnapshot(row) == price_snapshots' = Append(price_snapshots, row)

\* ORDER BY created_at DESC LIMIT 1: any row among those created last.
getLatestSnapshot ==
  IF price_snapshots = << >> THEN {NoSnap}
  ELSE {price_snapshots[i] : i \in
          {i \in DOMAIN price_snapshots :
             \A j \in DOMAIN price_snapshots :
                price_snapshots[j].created_at <= price_snapshots[i].created_at}}

\* A row written before the per-side columns existed: no buy, no sell.
LegacyRow ==
  [id |-> 1, source |-> "manual", buy_myr_per_g |-> NoPrice,
   sell_myr_per_g |-> NoPrice, computed_myr_per_g |-> MANUAL_BASE,
   note |-> "manual price", created_at |-> 0]

ozToGramWithBps(q) ==
  IF q.myr_per_oz_selling = NoPrice \/ q.myr_per_oz_buying = NoPrice
  THEN [buy |-> NoPrice, sell |-> NoPrice, base |-> NoPrice]
  ELSE LET base == round6((q.myr_per_oz_selling + q.myr_per_oz_buying)
                             * OUNCE_TO_GRAM.den, 2 * OUNCE_TO_GRAM.num)
           d == calcFromBase(base, BUY_BPS, SELL_BPS)
       IN [buy |-> d.buy, sell |-> d.sell, base |-> base]

IdlePrice ==
  [op |-> "none", pc |-> "idle", bnm |-> NoQuote, out |-> "none",
   ret |-> NoSnap, list |-> << >>]
PriceReady(p) == pproc[p].pc \in {"idle", "done"}
PriceAt(p, op, pc) == pproc[p].op = op /\ pproc[p].pc = pc
PriceGoto(p, op, pc, bnm) ==
  pproc' = [pproc EXCEPT ![p] =
              [IdlePrice EXCEPT !.op = op, !.pc = pc, !.bnm = bnm]]
PriceFinish(p, op, out, ret) ==
  pproc' = [pproc EXCEPT ![p] =
              [IdlePrice EXCEPT !.op = op, !.pc = "done", !.out = out,
                                !.ret = ret]]
VendorCalled(caller) ==
  vendor_calls' = [vendor_calls EXCEPT ![caller] = @ + 1]

\* fetchBnmKijangEmas: a quote, a quote lacking a side, or an error.
Quotes ==
  {[myr_per_oz_buying |-> Myr(16000), myr_per_oz_selling |-> Myr(16344)],
   [myr_per_oz_buying |-> NoPrice, myr_per_oz_selling |-> Myr(16344)]}
VendorThrows == [myr_per_oz_buying |-> -2, myr_per_oz_selling |-> -2]
VendorResults == Quotes \cup {VendorThrows}

(* getCurrentMyrPerGram *)
VendorAlways == TRUE
VendorAllowed == PRICE_MODE # "manual"

GetCurrentLatest(p) ==
  /\ PriceReady(p)
  /\ \E snap \in getLatestSnapshot :
       IF isCompleteSnap(snap)
       THEN PriceFinish(p, "getCurrentMyrPerGram", "ok",
                        normalizeFromSnapshot(snap))
       ELSE PriceGoto(p, "getCurrentMyrPerGram",
                      IF VendorAllowed THEN "gc_fetch" ELSE "gc_fallback",
                      NoQuote)
  /\ UNCHANGED <<price_snapshots, vendor_calls, clock, PRICE_MODE>>

GetCurrentFetch(p, res) ==
  /\ PriceAt(p, "getCurrentMyrPerGram", "gc_fetch")
  /\ VendorCalled("getCurrentMyrPerGram")
  /\ LET sides == ozToGramWithBps(res)
     IN IF res # VendorThrows /\ sides.buy # NoPrice /\ sides.sell # NoPrice
           /\ sides.base # NoPrice
        THEN PriceGoto(p, "getCurrentMyrPerGram", "gc_seed", res)
        ELSE PriceGoto(p, "getCurrentMyrPerGram", "gc_fallback", res)
  /\ UNCHANGED <<price_snapshots, clock, PRICE_MODE>>

GetCurrentSeed(p) ==
  /\ PriceAt(p, "getCurrentMyrPerGram", "gc_seed")
  /\ LET sides == ozToGramWithBps(pproc[p].bnm)
         snap == SnapshotRow("bnm-kijang-emas", sides.buy, sides.sell,
                             sides.base, "auto-seeded-from-bnm")
     IN /\ insertSnapshot(snap)
        /\ PriceFinish(p, "getCurrentMyrPerGram", "ok",
                       normalizeFromSnapshot(snap))
  /\ UNCHANGED <<vendor_calls, clock, PRICE_MODE>>

GetCurrentFallback(p) ==
  /\ PriceAt(p, "getCurrentMyrPerGram", "gc_fallback")
  /\ LET d == calcFromBase(MANUAL_BASE, BUY_BPS, SELL_BPS)
         snap == SnapshotRow("manual", d.buy, d.sell, MANUAL_BASE,
                             "manual-fallback")
     IN /\ insertSnapshot(snap)
        /\ PriceFinish(p, "getCurrentMyrPerGram", "ok",
                       normalizeFromSnapshot(snap))
  /\ UNCHANGED <<vendor_calls, clock, PRICE_MODE>>

(* setManualPrice *)
SetManualPrice(p, input) ==
  /\ PriceReady(p)
  /\ LET base == toNum(input.myrPerG)
         buy0 == toNum(input.myrPerG_buy)
         sell0 == toNum(input.myrPerG_sell)
         derive == buy0 = NoPrice \/ sell0 = NoPrice
         d == calcFromBase(base, BUY_BPS, SELL_BPS)
         buy == IF derive THEN d.buy ELSE buy0
         sell == IF derive THEN d.sell ELSE sell0
         snap == SnapshotRow("manual", buy, sell, avg6(buy, sell), input.note)
     IN IF derive /\ base = NoPrice
        THEN /\ PriceFinish(p, "setManualPrice", "Provide either", NoSnap)
             /\ UNCHANGED price_snapshots
        ELSE /\ insertSnapshot(snap)
             /\ PriceFinish(p, "setManualPrice", "ok",
                            normalizeFromSnapshot(snap))
  /\ UNCHANGED <<vendor_calls, clock, PRICE_MODE>>

(* listSnapshotsFull *)
\* The orders ORDER BY created_at DESC may return the rows in.
Descending(order) ==
  \A a, b \in DOMAIN order :
     a < b => price_snapshots[order[a]].created_at
                >= price_snapshots[order[b]].created_at
RowOrders ==
  {order \in [DOMAIN price_snapshots -> DOMAIN price_snapshots] :
     /\ \A a, b \in DOMAIN order : a # b => order[a] # order[b]
     /\ Descending(order)}
Page(seq, limit, offset) ==
  SubSeq(seq, offset + 1,
         IF offset + limit < Len(seq) THEN offset + limit ELSE Len(seq))

ListSnapshotsFull(p, limit, offset) ==
  /\ PriceReady(p)
  /\ \E order \in RowOrders :
       pproc' = [pproc EXCEPT ![p] =
          [IdlePrice EXCEPT !.op = "listSnapshotsFull", !.pc = "done",
             !.out = "ok",
             !.list = Page([k \in DOMAIN order |->
                              normalizeFromSnapshot(price_snapshots[order[k]])],
                           limit, offset)]]
  /\ UNCHANGED <<price_snapshots, vendor_calls, clock, PRICE_MODE>>

(* priceCron runOnce *)
CronFetch(p, res) ==
  /\ PriceReady(p)
  /\ VendorCalled("priceCron")
  /\ LET grams == ozToGramWithBps(res)
     IN IF res = VendorThrows
        THEN PriceFinish(p, "runOnce", "Price cron failed", NoSnap)
        ELSE IF grams.buy = NoPrice \/ grams.sell = NoPrice
        THEN PriceFinish(p, "runOnce", "Price cron failed", NoSnap)
        ELSE PriceGoto(p, "runOnce", "cron_insert", res)
  /\ UNCHANGED <<price_snapshots, clock, PRICE_MODE>>

CronInsert(p) ==
  /\ PriceAt(p, "runOnce", "cron_insert")
  /\ LET grams == ozToGramWithBps(pproc[p].bnm)
         snap == SnapshotRow("bnm-kijang-emas", grams.buy, grams.sell,
                             avg6(grams.buy, grams.sell), "null")
     IN /\ insertSnapshot(snap)
        /\ PriceFinish(p, "runOnce", "ok", NoSnap)
  /\ UNCHANGED <<vendor_calls, clock, PRICE_MODE>>

\* Time passes: later statements see a later NOW().
Tick ==
  /\ clock' = clock + 1
  /\ UNCHANGED <<price_snapshots, vendor_calls, PRICE_MODE, pproc>>

(* ------------------------- back-office requests ------------------------ *)
\* SQL NULL in a money or gram column.
NoAmount == -1
NoAudit == "null"
IdleRequest ==
  [op |-> "none", pc |-> "idle", wallet |-> "", grams |-> 0, asked |-> "CASH",
   rtype |-> "CASH", uid |-> 0, price |-> 0, amt |-> 0, id |-> 0, status |-> "",
   audit |-> NoAudit, out |-> "none", ret |-> 0]
RequestReady(p) == rproc[p].pc \in {"idle", "done"}
RequestAt(p, op, pc) == rproc[p].op = op /\ rproc[p].pc = pc
RequestFinish(p, op, out, ret) ==
  rproc' = [rproc EXCEPT ![p] =
              [IdleRequest EXCEPT !.op = op, !.pc = "done", !.out = out,
                                  !.ret = ret]]

\* One fetchWithTimeout call: what is left of its retry budget and what it
\* has done so far.
IdleFetch ==
  [pc |-> "idle", budget |-> 0, retries |-> 0, attempts |-> 0, err |-> "none",
   out |-> "none"]
\* One pause or resume request.
\* The clients of the shared pg Pool. A client keeps its session between the
\* statements pool.query runs on it: an open transaction, the row locks it
\* holds and its uncommitted writes.
MaxConns == 2
Conns == 1 .. MaxConns
IdleConn ==
  [inTx |-> FALSE, locks |-> {}, uid |-> 0, rm |-> {}, oumg |-> {}, spent |-> {}]

IdleChainOp == [op |-> "none", pc |-> "idle", out |-> "none"]

(* ---------------------------- specifications ---------------------------- *)
LedgerInit ==
  /\ users = << >>
  /\ rm_balances = << >>
  /\ oumg_balances = << >>
  /\ token_ops = << >>
  /\ proc = [p \in Procs |-> IdleProc]
  /\ applied = ZeroApplied
  /\ redemptions = << >>
  /\ admin_audit_logs = << >>
  /\ rproc = [p \in Procs |-> IdleRequest]
  /\ http = [p \in Procs |-> IdleFetch]
  /\ chain_paused = FALSE
  /\ contract_state = [paused |-> FALSE, updated_by |-> "null"]
  /\ cproc = [p \in Procs |-> IdleChainOp]
  /\ conns = [c \in Conns |-> IdleConn]

\* An empty price table, no vendor call made yet, PRICE_MODE at its default.
Init ==
  /\ LedgerInit
  /\ price_snapshots = << >>
  /\ vendor_calls = [c \in Callers |-> 0]
  /\ clock = 1
  /\ PRICE_MODE = "manual"
  /\ pproc = [p \in Procs |-> IdlePrice]

\* Bounds on what a new call may drive the store to.
RmRoom(uid, sub) ==
  \A b \in RowOf(rm_balances, uid) :
     NumericMyr(b * GramScale + sub) \in -MaxDebt .. MaxBal
OumgRoom(uid, d) ==
  \A b \in RowOf(oumg_balances, uid) : b + d \in -MaxDebt .. MaxBal
LogRoom(max) == Len(token_ops) < max

CallAdjustRm(p, uids, deltas) ==
  \E uid \in uids, d \in deltas :
     RmRoom(uid, d * GramScale) /\ StartAdjustRm(p, uid, d)
CallAdjustOumg(p, uids, deltas) ==
  \E uid \in uids, d \in deltas : OumgRoom(uid, d) /\ StartAdjustOumg(p, uid, d)
CallBuyAndMint(p, uids, gs, prices, max) ==
  \E uid \in uids, g \in gs, pr \in prices :
     LogRoom(max) /\ OumgRoom(uid, g) /\ StartBuyAndMint(p, uid, g, pr)
CallSellAndBurn(p, uids, gs, prices, max) ==
  \E uid \in uids, g \in gs, pr \in prices :
     LogRoom(max) /\ RmRoom(uid, Mul(g, pr)) /\ StartSellAndBurn(p, uid, g, pr)

EnsureStep(p) == EnsureUpsertUser(p) \/ EnsureRmRow(p) \/ EnsureOumgRow(p)
AdjustStep(p) ==
  \/ AdjustRmInsert(p) \/ AdjustRmUpdate(p) \/ AdjustRmCommit(p)
  \/ AdjustOumgInsert(p) \/ AdjustOumgUpdate(p) \/ AdjustOumgCommit(p)
BuyStep(p) ==
  \/ BuyDebitRm(p) \/ BuyCreditOumg(p) \/ BuyAccumulateSpent(p)
  \/ BuyLogOp(p) \/ BuyCommit(p)
SellStep(p) ==
  SellDebitOumg(p) \/ SellCreditRm(p) \/ SellLogOp(p) \/ SellCommit(p)

\* The ledger functions called one at a time, with any accepted arguments.
Next ==
  /\ \/ \E w \in Wallets : StartEnsureUser(1, w)
     \/ CallAdjustRm(1, UserIdInputs, DeltaInputs)
     \/ CallAdjustOumg(1, UserIdInputs, DeltaInputs)
     \/ CallBuyAndMint(1, UserIdInputs, GramInputs, PriceInputs, MaxOps)
     \/ CallSellAndBurn(1, UserIdInputs, GramInputs, PriceInputs, MaxOps)
     \/ EnsureStep(1) \/ AdjustStep(1) \/ BuyStep(1) \/ SellStep(1)
     \/ StatementFails(1)
  /\ UNCHANGED applied
  /\ UNCHANGED pricing
  /\ UNCHANGED backoffice
  /\ UNCHANGED infra

Spec == Init /\ [][Next]_vars

\* Two requests in flight on one user's ledger, each advancing one awaited
\* statement at a time.
ConcUsers == {1}
ConcWallets == {"0xaa"}
ConcGrams == {1}
ConcPrices == {1, 2}
ConcDeltas == {1}

ConcNext ==
  /\ \E p \in Procs :
       \/ \E w \in ConcWallets : StartEnsureUser(p, w)
       \/ CallAdjustRm(p, ConcUsers, ConcDeltas)
       \/ CallAdjustOumg(p, ConcUsers, ConcDeltas)
       \/ CallBuyAndMint(p, ConcUsers, ConcGrams, ConcPrices, ConcMaxOps)
       \/ CallSellAndBurn(p, ConcUsers, ConcGrams, ConcPrices, ConcMaxOps)
       \/ EnsureStep(p) \/ AdjustStep(p) \/ BuyStep(p) \/ SellStep(p)
       \/ StatementFails(p)
       \/ DeadlockAbort(p)
  /\ Track
  /\ UNCHANGED pricing
  /\ UNCHANGED backoffice
  /\ UNCHANGED infra

ConcSpec == Init /\ [][ConcNext]_vars

\* Inputs of the user-facing handlers: absent ({}) or supplied ({v}).
UserGrams == {{}, {GramScale}}
UserAmounts == {{}, {1}}
BurnGrams == {0, 1}
UserPrices == {1, 2}
SuppliedTx == {TRUE, FALSE}

CallUserMint(p, wallets, gs, amounts, max) ==
  \E w \in wallets, g \in gs, a \in amounts :
     LogRoom(max) /\ StartUserMint(p, w, g, a)
CallUserBurn(p, wallets, gs, max) ==
  \E w \in wallets, g \in gs : LogRoom(max) /\ StartUserBurn(p, w, g)
CallMintOnchain(p, wallets, gs, prices, max) ==
  \E w \in wallets, g \in gs, pr \in prices, t \in SuppliedTx :
     LogRoom(max) /\ StartMintOnchain(p, w, g, pr, t)

UserMintStep(p) ==
  \/ UserMintLookup(p)
  \/ \E buy \in UserPrices : UserMintPrice(p, buy)
  \/ UserMintCheck(p)
  \/ \E o \in ChainOutcomes : UserMintChain(p, o)
  \/ UserMintDebit(p) \/ UserMintCredit(p) \/ UserMintSpent(p) \/ UserMintLog(p)
UserBurnStep(p) ==
  \/ UserBurnLookup(p)
  \/ \E sell \in UserPrices : UserBurnPrice(p, sell)
  \/ UserBurnCheck(p)
  \/ \E o \in ChainOutcomes : UserBurnChain(p, o)
  \/ UserBurnCredit(p) \/ UserBurnDebit(p) \/ UserBurnLog(p)
MintOnchainStep(p) ==
  \/ \E o \in ChainOutcomes : MintOnchainChain(p, o)
  \/ EnsureStep(p) \/ BuyStep(p)
  \/ MintOnchainAttach(p)

\* The user-facing handlers and the admin funding path, one request at a time.
UserNext ==
  /\ \/ CallAdjustRm(1, ConcUsers, ConcDeltas)
     \/ CallAdjustOumg(1, ConcUsers, ConcDeltas)
     \/ CallUserMint(1, Wallets, UserGrams, UserAmounts, MaxOps)
     \/ CallUserBurn(1, Wallets, BurnGrams, MaxOps)
     \/ CallMintOnchain(1, Wallets, GramInputs, PriceInputs, MaxOps)
     \/ AdjustStep(1)
     \/ UserMintStep(1) \/ UserBurnStep(1) \/ MintOnchainStep(1)
     \/ StatementFails(1)
  /\ UNCHANGED applied
  /\ UNCHANGED pricing
  /\ UNCHANGED backoffice
  /\ UNCHANGED infra

UserSpec == Init /\ [][UserNext]_vars

\* userMint and userBurn requests for one wallet, two in flight, on balances
\* credited through the admin adjust path.
RaceNext ==
  /\ \E p \in Procs :
       \/ \E w \in ConcWallets : StartEnsureUser(p, w)
       \/ CallAdjustRm(p, ConcUsers, ConcDeltas)
       \/ CallAdjustOumg(p, ConcUsers, ConcDeltas)
       \/ CallUserMint(p, ConcWallets, UserGrams, UserAmounts, ConcMaxOps)
       \/ CallUserBurn(p, ConcWallets, BurnGrams, ConcMaxOps)
       \/ EnsureStep(p) \/ AdjustStep(p)
       \/ UserMintStep(p) \/ UserBurnStep(p)
       \/ StatementFails(p)
  /\ UNCHANGED applied
  /\ UNCHANGED pricing
  /\ UNCHANGED backoffice
  /\ UNCHANGED infra

RaceSpec == Init /\ [][RaceNext]_vars

(* ------------------------- crediting by wallet ------------------------- *)
\* The users table with a row for wallet w added under a fresh id.
WithUser(id, w) ==
  [i \in DOMAIN users \cup {id} |->
     IF i = id THEN [wallet |-> w, rm_spent |-> 0] ELSE users[i]]

\* balanceModel.creditRmByWallet(wallet, amountMyr): the wallet is used as
\* typed; a non-positive amount is refused before the transaction starts.
StartCreditRm(p, w, amount) ==
  /\ Ready(p)
  /\ proc' = [proc EXCEPT ![p] =
       IF amount <= 0
       THEN [IdleProc EXCEPT !.op = "creditRmByWallet", !.pc = "done",
                             !.out = "amount must be positive"]
       ELSE [IdleProc EXCEPT !.op = "creditRmByWallet", !.pc = "cr_upsert",
                             !.wallet = w, !.amt = amount]]
  /\ UNCHANGED db

\* client.query(INSERT INTO users ... ON CONFLICT (wallet_address) DO UPDATE ... RETURNING id)
CreditRmUpsert(p) ==
  /\ proc[p].pc = "cr_upsert"
  /\ \A q \in Procs \ {p} : proc[q].wr.user # {proc[p].wallet}
  /\ LET found == ConflictingUser(proc[p].wallet)
     IN proc' = [proc EXCEPT ![p].pc = "cr_insert",
                   ![p].uid = IF found # {} THEN CHOOSE i \in found : TRUE
                              ELSE Cardinality(DOMAIN users) + 1,
                   ![p].wr.user = IF found # {} THEN {} ELSE {proc[p].wallet}]
  /\ UNCHANGED db

\* client.query(INSERT INTO rm_balances (user_id, balance_myr) VALUES ($1, 0) ON CONFLICT DO NOTHING)
CreditRmInsert(p) ==
  /\ proc[p].pc = "cr_insert"
  /\ RowFree(p, "rm", proc[p].uid)
  /\ proc' = [proc EXCEPT ![p].pc = "cr_update",
                ![p].wr.rm = IF proc[p].uid \in DOMAIN rm_balances THEN {} ELSE {0}]
  /\ UNCHANGED db

\* client.query(UPDATE rm_balances SET balance_myr = balance_myr + $1 ... RETURNING balance_myr)
CreditRmUpdate(p) ==
  /\ proc[p].pc = "cr_update"
  /\ RowFree(p, "rm", proc[p].uid)
  /\ proc' = [proc EXCEPT ![p].pc = "cr_commit",
                ![p].wr.rm = {b + proc[p].amt :
                                b \in Visible(proc[p].wr.rm, rm_balances, proc[p].uid)}]
  /\ UNCHANGED db

\* client.query("COMMIT"); return { userId, balance_myr }
CreditRmCommit(p) ==
  /\ proc[p].pc = "cr_commit"
  /\ users' = IF proc[p].wr.user = {} THEN users
              ELSE WithUser(proc[p].uid, proc[p].wallet)
  /\ rm_balances' = Publish(rm_balances, proc[p].uid, proc[p].wr.rm)
  /\ Finish(p, "ok", proc[p].uid)
  /\ UNCHANGED <<oumg_balances, token_ops>>

\* userModel.creditUserByWallet(wallet, amountMyr): BEGIN, the three statements
\* and COMMIT are each sent with the pool's query(); run alone and with no
\* statement failing, the call ends in the same store whether or not they share
\* a connection, and each statement is applied here as it is issued.
StartCreditUser(p, w, amount) ==
  /\ Ready(p)
  /\ proc' = [proc EXCEPT ![p] =
       IF ~(amount > 0)
       THEN [IdleProc EXCEPT !.op = "creditUserByWallet", !.pc = "done",
                             !.out = "amount_myr must be > 0"]
       ELSE [IdleProc EXCEPT !.op = "creditUserByWallet", !.pc = "cu_upsert",
                             !.wallet = ToLowerCase(w), !.amt = amount]]
  /\ UNCHANGED db

\* query(INSERT INTO users ... ON CONFLICT (wallet_address) DO UPDATE ... RETURNING id)
CreditUserUpsert(p) ==
  /\ proc[p].pc = "cu_upsert"
  /\ LET found == ConflictingUser(proc[p].wallet)
         id == IF found # {} THEN CHOOSE i \in found : TRUE
               ELSE Cardinality(DOMAIN users) + 1
     IN /\ users' = IF found # {} THEN users ELSE WithUser(id, proc[p].wallet)
        /\ proc' = [proc EXCEPT ![p].pc = "cu_insert", ![p].uid = id]
  /\ UNCHANGED <<rm_balances, oumg_balances, token_ops>>

\* query(INSERT INTO rm_balances (user_id, balance_myr) VALUES ($1, 0) ON CONFLICT (user_id) DO NOTHING)
CreditUserInsert(p) ==
  /\ proc[p].pc = "cu_insert"
  /\ RowFree(p, "rm", proc[p].uid)
  /\ rm_balances' = Publish(rm_balances, proc[p].uid,
                            IF proc[p].uid \in DOMAIN rm_balances THEN {} ELSE {0})
  /\ proc' = [proc EXCEPT ![p].pc = "cu_update"]
  /\ UNCHANGED <<users, oumg_balances, token_ops>>

\* query(UPDATE rm_balances SET balance_myr = balance_myr + $1 WHERE user_id = $2);
\* COMMIT; the closing SELECT returns the user with its balances.
CreditUserUpdate(p) ==
  /\ proc[p].pc = "cu_update"
  /\ RowFree(p, "rm", proc[p].uid)
  /\ rm_balances' = UpdateBalance(rm_balances, proc[p].uid, proc[p].amt * GramScale)
  /\ Finish(p, "ok", proc[p].uid)
  /\ UNCHANGED <<users, oumg_balances, token_ops>>

CreditAmounts == {0, 1}

\* The room left under MaxBal on the rm balance of wallet w's user, if any.
WalletRmRoom(w, amount) ==
  \A u \in UserIdOfWallet(w) : RmRoom(u, amount * GramScale)

CreditRmStep(p) ==
  CreditRmUpsert(p) \/ CreditRmInsert(p) \/ CreditRmUpdate(p) \/ CreditRmCommit(p)
CreditUserStep(p) ==
  CreditUserUpsert(p) \/ CreditUserInsert(p) \/ CreditUserUpdate(p)

\* The functions that create users, called one at a time.
CreditNext ==
  /\ \/ \E w \in Wallets : StartEnsureUser(1, w)
     \/ \E w \in Wallets, a \in CreditAmounts :
          WalletRmRoom(w, a) /\ StartCreditRm(1, w, a)
     \/ \E w \in Wallets, a \in CreditAmounts :
          WalletRmRoom(ToLowerCase(w), a) /\ StartCreditUser(1, w, a)
     \/ EnsureStep(1) \/ CreditRmStep(1) \/ CreditUserStep(1)
  /\ UNCHANGED applied
  /\ UNCHANGED pricing
  /\ UNCHANGED backoffice
  /\ UNCHANGED infra

CreditSpec == Init /\ [][CreditNext]_vars

(* ----------------------- price engine, as a system ---------------------- *)
ManualInputs ==
  {[myrPerG |-> Myr(500), myrPerG_buy |-> NoPrice, myrPerG_sell |-> NoPrice,
    note |-> "base"],
   [myrPerG |-> NoPrice, myrPerG_buy |-> Myr(520), myrPerG_sell |-> Myr(480),
    note |-> "pair"],
   [myrPerG |-> NoPrice, myrPerG_buy |-> Myr(480), myrPerG_sell |-> Myr(520),
    note |-> "inverted"],
   [myrPerG |-> NoPrice, myrPerG_buy |-> NoPrice, myrPerG_sell |-> NoPrice,
    note |-> "nothing"]}
ListLimits == {2}
ListOffsets == {0, 1}

\* The table as a deployment may find it: empty, or holding a legacy row;
\* PRICE_MODE is read once from the environment.
PriceInit ==
  /\ LedgerInit
  /\ price_snapshots \in {<< >>, <<LegacyRow>>}
  /\ vendor_calls = [c \in Callers |-> 0]
  /\ clock = 1
  /\ PRICE_MODE \in PriceModes
  /\ pproc = [p \in Procs |-> IdlePrice]

\* Bounds: every call in flight may still insert one row.
SnapRoom ==
  Len(price_snapshots) + Cardinality({q \in Procs : ~PriceReady(q)}) < MaxSnaps
FetchRoom == vendor_calls["priceCron"] < MaxFetches

CallGetCurrent(p) ==
  /\ SnapRoom \/ \A s \in getLatestSnapshot : isCompleteSnap(s)
  /\ GetCurrentLatest(p)
CallSetManualPrice(p) ==
  \E input \in ManualInputs : SnapRoom /\ SetManualPrice(p, input)
CallListSnapshots(p) ==
  \E limit \in ListLimits, offset \in ListOffsets :
     ListSnapshotsFull(p, limit, offset)
CallCron(p) ==
  \E res \in VendorResults : SnapRoom /\ FetchRoom /\ CronFetch(p, res)
GetCurrentStep(p) ==
  \/ \E res \in VendorResults : GetCurrentFetch(p, res)
  \/ GetCurrentSeed(p)
  \/ GetCurrentFallback(p)

\* A call made after the previous one returned runs at a later time than
\* every row already stored.
Later == \A i \in DOMAIN price_snapshots : price_snapshots[i].created_at < clock

\* Price reads, admin overrides, history listings and the cron, one call at
\* a time.
PriceNext ==
  /\ \/ Later /\ CallGetCurrent(1)
     \/ GetCurrentStep(1)
     \/ Later /\ CallSetManualPrice(1)
     \/ CallListSnapshots(1)
     \/ Later /\ CallCron(1)
     \/ CronInsert(1)
     \/ clock < MaxClock /\ Tick
  /\ UNCHANGED ledger
  /\ UNCHANGED backoffice
  /\ UNCHANGED infra

PriceSpec == PriceInit /\ [][PriceNext]_vars

\* Two callers at once: inserts may run within one clock reading.
PriceRaceNext ==
  /\ \/ \E p \in Procs :
          \/ CallGetCurrent(p) \/ GetCurrentStep(p)
          \/ CallSetManualPrice(p)
          \/ CallCron(p) \/ CronInsert(p)
     \/ clock < MaxClock /\ Tick
  /\ UNCHANGED ledger
  /\ UNCHANGED backoffice
  /\ UNCHANGED infra

PriceRaceSpec == PriceInit /\ [][PriceRaceNext]_vars

(* ------------------------------ redemptions ----------------------------- *)
\* Grams are in 1/GramScale gram, prices in 1/PriceUnit MYR per gram, fee
\* and payout in 1/100 MYR.
FEE_BPS == 50
MIN_GOLD_BAR_G == 50
MaxRedemptions == 2
\* /^0x[a-f0-9]{40}$/ on the trimmed, lower-cased wallet.
ValidWallet(w) == w \in {"0xaa"}
\* SELECT ... FROM users WHERE lower(wallet_address) = lower($1) LIMIT 1
getUserByWallet(w) ==
  {i \in DOMAIN users : ToLowerCase(users[i].wallet) = ToLowerCase(w)}

\* +(grams * price * FEE_BPS / 10000).toFixed(2)
FeeMyr(grams, price) ==
  MathRound(grams * price * FEE_BPS, GramScale * PriceUnit * 100)
\* +((grams * price) - fee_myr).toFixed(2)
PayoutMyr(grams, price, fee) ==
  MathRound(grams * price * 100 - fee * GramScale * PriceUnit,
            GramScale * PriceUnit)
\* if (rtype === "GOLD" && grams < MIN_GOLD_BAR_G) rtype = "CASH"
EffectiveKind(rtype, grams) ==
  IF rtype = "GOLD" /\ grams < MIN_GOLD_BAR_G * GramScale THEN "CASH" ELSE rtype

StartCreateRedemption(p, w, grams, type) ==
  /\ RequestReady(p) /\ Ready(p) /\ PriceReady(p)
  /\ LET wallet == ToLowerCase(w)
     IN IF ~ValidWallet(wallet) \/ grams <= 0
        THEN RequestFinish(p, "createRedemption",
                           "wallet and positive grams are required", 0)
        ELSE rproc' = [rproc EXCEPT ![p] =
               [IdleRequest EXCEPT !.op = "createRedemption", !.pc = "cr_user",
                  !.wallet = wallet, !.grams = grams, !.asked = type,
                  !.rtype = EffectiveKind(type, grams)]]
  /\ UNCHANGED <<ledger, pricing, redemptions, admin_audit_logs>>

\* const user = await getUserByWallet(wallet); a missing user is created.
CreateLookupUser(p) ==
  /\ RequestAt(p, "createRedemption", "cr_user")
  /\ LET found == getUserByWallet(rproc[p].wallet)
     IN IF found # {}
        THEN /\ \E id \in found :
                  rproc' = [rproc EXCEPT ![p].pc = "cr_price", ![p].uid = id]
             /\ UNCHANGED ledger
        ELSE /\ StartEnsureUser(p, rproc[p].wallet)
             /\ rproc' = [rproc EXCEPT ![p].pc = "cr_ensure"]
             /\ UNCHANGED applied
  /\ UNCHANGED <<pricing, redemptions, admin_audit_logs>>

CreateEnsureStep(p) ==
  /\ RequestAt(p, "createRedemption", "cr_ensure")
  /\ EnsureUpsertUser(p) \/ EnsureRmRow(p) \/ EnsureOumgRow(p)
  /\ UNCHANGED <<applied, pricing, backoffice>>

CreateUserEnsured(p) ==
  /\ RequestAt(p, "createRedemption", "cr_ensure")
  /\ proc[p].pc = "done"
  /\ rproc' = [rproc EXCEPT ![p].pc = "cr_price", ![p].uid = proc[p].ret]
  /\ UNCHANGED <<ledger, pricing, redemptions, admin_audit_logs>>

\* const p = await PriceService.getCurrentMyrPerGram()
CreateGetPrice(p) ==
  /\ RequestAt(p, "createRedemption", "cr_price")
  /\ GetCurrentLatest(p)
  /\ rproc' = [rproc EXCEPT ![p].pc = "cr_pricing"]
  /\ UNCHANGED <<ledger, redemptions, admin_audit_logs>>

CreatePriceStep(p) ==
  /\ RequestAt(p, "createRedemption", "cr_pricing")
  /\ \/ \E res \in VendorResults : GetCurrentFetch(p, res)
     \/ GetCurrentSeed(p)
     \/ GetCurrentFallback(p)
  /\ UNCHANGED <<ledger, backoffice>>

\* price = p?.user_sell_myr_per_g ?? p?.sell_myr_per_g ?? ...
CreatePriced(p) ==
  /\ RequestAt(p, "createRedemption", "cr_pricing")
  /\ pproc[p].pc = "done"
  /\ rproc' = [rproc EXCEPT ![p].pc = "cr_insert",
                            ![p].price = pproc[p].ret.sell_myr_per_g]
  /\ UNCHANGED <<ledger, pricing, redemptions, admin_audit_logs>>

\* catch { price = 0 }: a statement of the price service failed.
CreatePriceThrows(p) ==
  /\ \/ RequestAt(p, "createRedemption", "cr_price")
     \/ RequestAt(p, "createRedemption", "cr_pricing") /\ pproc[p].pc # "done"
  /\ rproc' = [rproc EXCEPT ![p].pc = "cr_insert", ![p].price = 0]
  /\ pproc' = [pproc EXCEPT ![p] =
        [IdlePrice EXCEPT !.op = "getCurrentMyrPerGram", !.pc = "done",
                          !.out = "query failed"]]
  /\ UNCHANGED <<ledger, price_snapshots, vendor_calls, clock, PRICE_MODE,
                 redemptions, admin_audit_logs>>

RedemptionRow(p) ==
  LET fee == FeeMyr(rproc[p].grams, rproc[p].price)
  IN [id |-> Len(redemptions) + 1, user_id |-> rproc[p].uid,
      wallet_address |-> ToLowerCase(rproc[p].wallet),
      kind |-> rproc[p].rtype, grams |-> rproc[p].grams,
      amount_myr |-> NoAmount, fee_bps |-> FEE_BPS, fee_myr |-> fee,
      min_unit_g |-> IF rproc[p].rtype = "GOLD"
                     THEN MIN_GOLD_BAR_G * GramScale ELSE NoAmount,
      payout_myr |-> IF rproc[p].rtype = "CASH"
                     THEN PayoutMyr(rproc[p].grams, rproc[p].price, fee)
                     ELSE NoAmount,
      status |-> "PENDING", note |-> "null",
      audit |-> "user redemption request"]

\* insertRedemption
CreateInsert(p) ==
  /\ RequestAt(p, "createRedemption", "cr_insert")
  /\ redemptions' = Append(redemptions, RedemptionRow(p))
  /\ RequestFinish(p, "createRedemption", "ok", Len(redemptions) + 1)
  /\ UNCHANGED <<ledger, pricing, admin_audit_logs>>

\* UPDATE redemptions SET status = $1, note = COALESCE($2, note),
\*   audit = COALESCE($3, audit), updated_at = NOW() WHERE id = $4 RETURNING *
patchRedemption(id, status, note, audit) ==
  IF id \in DOMAIN redemptions
  THEN [redemptions EXCEPT
          ![id].status = status,
          ![id].note = IF note # "null" THEN note ELSE @,
          ![id].audit = IF audit # NoAudit THEN audit ELSE @]
  ELSE redemptions

\* PATCH /api/redemption/:id: if (!id || !status) -> 400
StartUpdateRedemption(p, id, status, audit) ==
  /\ RequestReady(p)
  /\ IF id = 0 \/ status = ""
     THEN RequestFinish(p, "updateRedemption", "id and status are required", 0)
     ELSE rproc' = [rproc EXCEPT ![p] =
            [IdleRequest EXCEPT !.op = "updateRedemption", !.pc = "ur_patch",
               !.id = id, !.status = status, !.audit = audit]]
  /\ UNCHANGED <<ledger, pricing, redemptions, admin_audit_logs>>

\* const row = await patchRedemption(id, { status, audit });
\* return res.json({ success: true, row });
UpdateRedemption(p) ==
  /\ RequestAt(p, "updateRedemption", "ur_patch")
  /\ redemptions' = patchRedemption(rproc[p].id, rproc[p].status, "null",
                                    rproc[p].audit)
  /\ RequestFinish(p, "updateRedemption", "ok",
                   IF rproc[p].id \in DOMAIN redemptions THEN rproc[p].id ELSE 0)
  /\ UNCHANGED <<ledger, pricing, admin_audit_logs>>

RedeemWallets == {"0xAA", "bad"}
RedeemGrams == {0, 1, MIN_GOLD_BAR_G * GramScale}
RedeemKinds == {"CASH", "GOLD"}
StatusInputs == {"", "PENDING", "APPROVED", "REJECTED", "COMPLETED"}
AuditInputs == {NoAudit, "reviewed"}

CreateRedemptionStep(p) ==
  \/ CreateLookupUser(p) \/ CreateEnsureStep(p) \/ CreateUserEnsured(p)
  \/ CreateGetPrice(p) \/ CreatePriceStep(p) \/ CreatePriced(p)
  \/ CreatePriceThrows(p) \/ CreateInsert(p)

\* Redemption requests, one call at a time.
RedeemNext ==
  /\ \/ \E w \in RedeemWallets, g \in RedeemGrams, k \in RedeemKinds :
           /\ Len(redemptions) < MaxRedemptions
           /\ SnapRoom
           /\ StartCreateRedemption(1, w, g, k)
     \/ CreateRedemptionStep(1)
  /\ UNCHANGED infra

RedeemSpec == PriceInit /\ [][RedeemNext]_vars

\* Requests and their status updates by the back office, one call at a time.
MaxRequests == 1
RedemptionIds == 0 .. MaxRequests
TransitionNext ==
  /\ \/ \E k \in RedeemKinds :
           /\ Len(redemptions) < MaxRequests
           /\ SnapRoom
           /\ StartCreateRedemption(1, "0xAA", MIN_GOLD_BAR_G * GramScale, k)
     \/ CreateRedemptionStep(1)
     \/ \E id \in RedemptionIds, st \in StatusInputs, a \in AuditInputs :
           StartUpdateRedemption(1, id, st, a)
     \/ UpdateRedemption(1)
  /\ UNCHANGED infra

TransitionSpec == Init /\ [][TransitionNext]_vars

(* ------------------------ admin credits and audit ----------------------- *)
\* Amounts are in 1/100 MYR.
MaxAudits == 2
\* auditModel.insertAdminAudit(adminWallet, action, target, detail)
insertAdminAudit(action, target, amount) ==
  Append(admin_audit_logs,
         [id |-> Len(admin_audit_logs) + 1, admin_wallet |-> "admin",
          action |-> action, target |-> target, amount_myr |-> amount])

\* POST /api/admin/fund-preset: the wallet pattern and Number.isFinite are the
\* only checks; then ensureUserByWallet is awaited.
StartFundPreset(p, w, amount) ==
  /\ RequestReady(p)
  /\ LET wallet == ToLowerCase(w)
     IN IF ~ValidWallet(wallet)
        THEN /\ RequestFinish(p, "fundPreset",
                              "wallet and amount_myr are required", 0)
             /\ UNCHANGED ledger
        ELSE /\ StartEnsureUser(p, wallet)
             /\ rproc' = [rproc EXCEPT ![p] =
                   [IdleRequest EXCEPT !.op = "fundPreset", !.pc = "fp_ensure",
                                       !.wallet = wallet, !.amt = amount]]
             /\ UNCHANGED <<db, applied>>
  /\ UNCHANGED <<pricing, redemptions, admin_audit_logs>>

FundEnsureStep(p) ==
  /\ RequestAt(p, "fundPreset", "fp_ensure")
  /\ EnsureUpsertUser(p) \/ EnsureRmRow(p) \/ EnsureOumgRow(p)
  /\ UNCHANGED <<applied, pricing, backoffice>>

\* const newRm = await adjustRmBalance(userId, amount_myr);
FundAdjust(p) ==
  /\ RequestAt(p, "fundPreset", "fp_ensure")
  /\ proc[p].pc = "done"
  /\ StartAdjustRm(p, proc[p].ret, rproc[p].amt)
  /\ rproc' = [rproc EXCEPT ![p].pc = "fp_adjust", ![p].uid = proc[p].ret]
  /\ UNCHANGED <<applied, pricing, redemptions, admin_audit_logs>>

FundAdjustStep(p) ==
  /\ RequestAt(p, "fundPreset", "fp_adjust")
  /\ \/ AdjustRmInsert(p) \/ AdjustRmUpdate(p) \/ AdjustRmCommit(p)
     \/ StatementFails(p)
  /\ UNCHANGED <<applied, pricing, backoffice>>

\* adjustRmBalance returned or threw (catch -> 500).
FundAdjusted(p) ==
  /\ RequestAt(p, "fundPreset", "fp_adjust")
  /\ proc[p].pc = "done"
  /\ IF proc[p].out = "ok"
     THEN rproc' = [rproc EXCEPT ![p].pc = "audit"]
     ELSE RequestFinish(p, "fundPreset", "fundPreset failed", 0)
  /\ UNCHANGED <<ledger, pricing, redemptions, admin_audit_logs>>

\* wallet.startsWith("0x")
StartsWith0x(w) == w \in Wallets
\* POST /api/admin/users/:wallet/credit
StartPostCreditUser(p, w, amount) ==
  /\ RequestReady(p)
  /\ IF ~StartsWith0x(w)
     THEN /\ RequestFinish(p, "postCreditUser", "Invalid wallet", 0)
          /\ UNCHANGED ledger
     ELSE IF ~(amount > 0)
     THEN /\ RequestFinish(p, "postCreditUser", "amount_myr must be > 0", 0)
          /\ UNCHANGED ledger
     ELSE /\ StartCreditUser(p, w, amount)
          /\ rproc' = [rproc EXCEPT ![p] =
                [IdleRequest EXCEPT !.op = "postCreditUser", !.pc = "pc_credit",
                                    !.wallet = w, !.amt = amount]]
          /\ UNCHANGED applied
  /\ UNCHANGED <<pricing, redemptions, admin_audit_logs>>

PostCreditStep(p) ==
  /\ RequestAt(p, "postCreditUser", "pc_credit")
  /\ CreditUserUpsert(p) \/ CreditUserInsert(p) \/ CreditUserUpdate(p)
  /\ UNCHANGED <<applied, pricing, backoffice>>

PostCredited(p) ==
  /\ RequestAt(p, "postCreditUser", "pc_credit")
  /\ proc[p].pc = "done"
  /\ rproc' = [rproc EXCEPT ![p].pc = "audit"]
  /\ UNCHANGED <<ledger, pricing, redemptions, admin_audit_logs>>

AuditAction(op) == IF op = "fundPreset" THEN "FUND_PRESET" ELSE "USER_CREDITED"
\* await insertAdminAudit(...); return res.json(...)
AuditInsert(p) ==
  /\ rproc[p].pc = "audit"
  /\ admin_audit_logs' = insertAdminAudit(AuditAction(rproc[p].op),
                                          rproc[p].wallet, rproc[p].amt)
  /\ RequestFinish(p, rproc[p].op, "ok", rproc[p].uid)
  /\ UNCHANGED <<ledger, pricing, redemptions>>

\* The INSERT into admin_audit_logs is refused: catch -> 500.
AuditInsertFails(p) ==
  /\ rproc[p].pc = "audit"
  /\ RequestFinish(p, rproc[p].op, "insert failed", 0)
  /\ UNCHANGED <<ledger, pricing, redemptions, admin_audit_logs>>

FundAmounts == {-1, 0, 1}
FundPresetStep(p) ==
  FundEnsureStep(p) \/ FundAdjust(p) \/ FundAdjustStep(p) \/ FundAdjusted(p)
PostCreditUserStep(p) == PostCreditStep(p) \/ PostCredited(p)

\* The admin credit endpoints and the credit functions, one call at a time.
AuditNext ==
  /\ \/ \E w \in RedeemWallets, a \in FundAmounts :
           /\ Len(admin_audit_logs) < MaxAudits
           /\ WalletRmRoom(ToLowerCase(w), a)
           /\ StartFundPreset(1, w, a)
     \/ \E w \in RedeemWallets, a \in FundAmounts :
           /\ Len(admin_audit_logs) < MaxAudits
           /\ WalletRmRoom(ToLowerCase(w), a)
           /\ StartPostCreditUser(1, w, a)
     \/ \E w \in Wallets, a \in FundAmounts :
           /\ RequestReady(1)
           /\ WalletRmRoom(w, a)
           /\ StartCreditRm(1, w, a)
           /\ UNCHANGED <<applied, pricing, backoffice>>
     \/ \E w \in Wallets, a \in FundAmounts :
           /\ RequestReady(1)
           /\ WalletRmRoom(ToLowerCase(w), a)
           /\ StartCreditUser(1, w, a)
           /\ UNCHANGED <<applied, pricing, backoffice>>
     \/ /\ RequestReady(1)
        /\ CreditRmStep(1) \/ CreditUserStep(1)
        /\ UNCHANGED <<applied, pricing, backoffice>>
     \/ FundPresetStep(1) \/ PostCreditUserStep(1)
     \/ AuditInsert(1) \/ AuditInsertFails(1)
  /\ UNCHANGED infra

AuditSpec == Init /\ [][AuditNext]_vars

(* ---------------------- the operation log's tx_hash --------------------- *)
\* tokenOpsModel.updateTokenOpTxHash(opId, txHash), called on its own.
CallUpdateTokenOpTxHash(p, opId, txHash) ==
  /\ Ready(p)
  /\ token_ops' = UpdateTokenOpTxHash(opId, txHash)
  /\ proc' = [proc EXCEPT ![p] =
       [IdleProc EXCEPT !.op = "updateTokenOpTxHash", !.pc = "done",
                        !.out = "ok", !.opId = opId, !.txh = txHash]]
  /\ UNCHANGED <<users, rm_balances, oumg_balances>>

OpIds == 1 .. MaxOps
TxHashes == {ChainTx, UserTx}

\* Minting through the on-chain endpoint on balances funded by the admin
\* adjust path, and the tx_hash update called directly, one call at a time.
TxHashNext ==
  /\ \/ CallAdjustRm(1, ConcUsers, ConcDeltas)
     \/ CallMintOnchain(1, ConcWallets, GramInputs, PriceInputs, MaxOps)
     \/ \E opId \in OpIds, txHash \in TxHashes :
           CallUpdateTokenOpTxHash(1, opId, txHash)
     \/ AdjustRmInsert(1) \/ AdjustRmUpdate(1) \/ AdjustRmCommit(1)
     \/ MintOnchainStep(1)
     \/ StatementFails(1)
  /\ UNCHANGED applied
  /\ UNCHANGED pricing
  /\ UNCHANGED backoffice
  /\ UNCHANGED infra

TxHashSpec == Init /\ [][TxHashNext]_vars

(* ------------------------- vendor fetch, bounded ------------------------ *)
MaxRetries == 2
RetryBudgets == 0 .. MaxRetries
RetriesKept(r) == r
\* return fetchWithTimeout(url, opts, retries - 1, retryDelayMs)
RetriesLeft(r) == r - 1

\* fetchWithTimeout(url, opts, retries, retryDelayMs): the controller's timer
\* is armed and fetch(url, { signal }) is issued.
StartFetch(p, retries) ==
  /\ http[p].pc \in {"idle", "done"}
  /\ http' = [http EXCEPT ![p] =
       [IdleFetch EXCEPT !.pc = "pending", !.budget = retries,
                         !.retries = retries, !.attempts = 1]]

\* const res = await fetch(...); return res: any response, ok or not.
FetchResponds(p, status) ==
  /\ http[p].pc = "pending"
  /\ http' = [http EXCEPT ![p].pc = "done", ![p].out = status]

\* catch (err): retry after the delay while retries > 0, else throw err.
FetchFailed(p, err) ==
  /\ http[p].pc = "pending"
  /\ http' = [http EXCEPT ![p].err = err,
                          ![p].pc = IF http[p].retries > 0 THEN "delay" ELSE "done",
                          ![p].out = IF http[p].retries > 0 THEN "none" ELSE "throws"]
\* The request fails by itself (DNS, connection reset).
FetchRejects(p) == FetchFailed(p, "network")
\* setTimeout(() => ctrl.abort(), timeoutMs) fires on the pending request.
TimerFires(p) == FetchFailed(p, "aborted")

\* await new Promise(r => setTimeout(r, retryDelayMs)); the recursive call.
Retry(p) ==
  /\ http[p].pc = "delay"
  /\ http[p].attempts <= MaxRetries + 1
  /\ http' = [http EXCEPT ![p].pc = "pending",
                          ![p].retries = RetriesLeft(http[p].retries),
                          ![p].attempts = http[p].attempts + 1]

\* A step of the HTTP helper touches no table and no other request.
FetchOnly ==
  /\ UNCHANGED <<chain_paused, contract_state, cproc, conns>>
  /\ UNCHANGED ledger
  /\ UNCHANGED pricing
  /\ UNCHANGED backoffice

\* Vendor fetches of two price lookups at a time.
FetchNext ==
  /\ \E p \in Procs :
       \/ \E r \in RetryBudgets : StartFetch(p, r)
       \/ \E status \in {"ok", "http error"} : FetchResponds(p, status)
       \/ FetchRejects(p)
       \/ TimerFires(p)
       \/ Retry(p)
  /\ FetchOnly

\* Timers always run: a pending request is aborted unless it settles first,
\* and a retry delay ends.  The vendor itself owes nothing.
FetchSpec ==
  /\ Init /\ [][FetchNext]_vars
  /\ \A p \in Procs : /\ WF_vars(TimerFires(p) /\ FetchOnly)
                       /\ WF_vars(Retry(p) /\ FetchOnly)

(* ------------------------------ round trips ----------------------------- *)
\* The balances before the last committed buyAndMint and what that call asked
\* (sumRm its spend, sumOumg its grams), forgotten as soon as another call
\* commits on the ledger.
TrackBeforeBuy ==
  applied' =
    IF \E p \in Procs : Commits(p)
    THEN LET c == proc[CHOOSE p \in Procs : Commits(p)]
         IN IF c.op = "buyAndMint"
            THEN [serialRm |-> rm_balances[c.uid],
                  serialOumg |-> oumg_balances[c.uid],
                  sumRm |-> RmDeltaOf(c), sumOumg |-> c.g]
            ELSE ZeroApplied
    ELSE applied

\* One user funded by admin credits who buys and sells, one call at a time.
TripNext ==
  /\ \/ \E w \in ConcWallets : StartEnsureUser(1, w)
     \/ CallAdjustRm(1, ConcUsers, ConcDeltas)
     \/ CallBuyAndMint(1, ConcUsers, GramInputs, PriceInputs, MaxOps)
     \/ CallSellAndBurn(1, ConcUsers, GramInputs, PriceInputs, MaxOps)
     \/ EnsureStep(1)
     \/ AdjustRmInsert(1) \/ AdjustRmUpdate(1) \/ AdjustRmCommit(1)
     \/ BuyStep(1) \/ SellStep(1)
     \/ StatementFails(1)
  /\ TrackBeforeBuy
  /\ UNCHANGED pricing
  /\ UNCHANGED backoffice
  /\ UNCHANGED infra

TripSpec == Init /\ [][TripNext]_vars

(* ---------------------- recordPurchaseByWallet ------------------------- *)
\* Every statement goes through query(text, params) = pool.query(text, params):
\* the pool runs it on whichever client is idle and releases the client again.
\* A statement on client c waits while another client's open transaction holds
\* the lock of the row it touches.
ConnFree(c, k) == \A d \in Conns \ {c} : k \notin conns[d].locks

\* Client c after a statement that locks row k: the lock stays with the
\* client's open transaction, and is gone at once in autocommit.
Locking(c, k) ==
  [conns[c] EXCEPT !.locks = IF conns[c].inTx THEN @ \cup {k} ELSE @]

\* The balance a statement on client c reads.
SeenOn(c, k, table, uid) ==
  IF conns[c].uid = uid THEN Visible(conns[c][k], table, uid) ELSE RowOf(table, uid)

\* grams > 0 and unit price > 0 checked; cost = grams * unitPriceMyrPerG
StartRecordPurchase(p, w, g, price) ==
  /\ Ready(p)
  /\ g > 0 /\ price > 0
  /\ proc' = [proc EXCEPT ![p] =
       [IdleProc EXCEPT !.op = "recordPurchaseByWallet", !.pc = "rp_begin",
                        !.wallet = ToLowerCase(w), !.g = g, !.price = price]]
  /\ UNCHANGED db /\ UNCHANGED conns

\* await query("BEGIN")
PurchaseBegin(p, c) ==
  /\ proc[p].pc = "rp_begin"
  /\ conns' = [conns EXCEPT ![c].inTx = TRUE]
  /\ proc' = [proc EXCEPT ![p].pc = "rp_user"]
  /\ UNCHANGED db

\* INSERT INTO users ... ON CONFLICT (wallet_address) DO UPDATE ... RETURNING id,
\* then ensureBalanceRows (both rows exist: ON CONFLICT DO NOTHING).
PurchaseUpsertUser(p, c) ==
  /\ proc[p].pc = "rp_user"
  /\ ConnFree(c, "users")
  /\ conns' = [conns EXCEPT ![c] = Locking(c, "users")]
  /\ proc' = [proc EXCEPT ![p].pc = "rp_select",
                ![p].uid = CHOOSE i \in UserIdOfWallet(proc[p].wallet) : TRUE]
  /\ UNCHANGED db

\* SELECT balance_myr FROM rm_balances WHERE user_id = $1 FOR UPDATE;
\* if (current < cost) throw new Error("insufficient RM credit")
PurchaseSelectForUpdate(p, c) ==
  /\ proc[p].pc = "rp_select"
  /\ ConnFree(c, "rm")
  /\ conns' = [conns EXCEPT ![c] = Locking(c, "rm")]
  /\ LET current == CHOOSE b \in SeenOn(c, "rm", rm_balances, proc[p].uid) : TRUE
     IN proc' = [proc EXCEPT ![p].pc =
                   IF current * GramScale < Mul(proc[p].g, proc[p].price)
                   THEN "rp_rollback" ELSE "rp_rm"]
  /\ UNCHANGED db

\* A statement on client c that sets row k of table to v: pending in the
\* client's open transaction, or committed at once in autocommit.
WriteOn(c, k, uid, v) ==
  IF conns[c].inTx
  THEN /\ conns' = [conns EXCEPT ![c] = [Locking(c, k) EXCEPT ![k] = {v}, !.uid = uid]]
       /\ UNCHANGED db
  ELSE /\ UNCHANGED conns
       /\ rm_balances' = IF k = "rm" THEN [rm_balances EXCEPT ![uid] = v] ELSE rm_balances
       /\ oumg_balances' = IF k = "oumg" THEN [oumg_balances EXCEPT ![uid] = v] ELSE oumg_balances
       /\ users' = IF k = "spent" THEN [users EXCEPT ![uid].rm_spent = v] ELSE users
       /\ UNCHANGED token_ops

\* UPDATE rm_balances SET balance_myr = balance_myr - $1 WHERE user_id = $2
PurchaseDebitRm(p, c) ==
  /\ proc[p].pc = "rp_rm"
  /\ ConnFree(c, "rm")
  /\ LET uid == proc[p].uid
         b == CHOOSE v \in SeenOn(c, "rm", rm_balances, uid) : TRUE
     IN WriteOn(c, "rm", uid, NumericMyr(b * GramScale - Mul(proc[p].g, proc[p].price)))
  /\ proc' = [proc EXCEPT ![p].pc = "rp_oumg"]

\* UPDATE oumg_balances SET balance_g = balance_g + $1 WHERE user_id = $2
PurchaseCreditOumg(p, c) ==
  /\ proc[p].pc = "rp_oumg"
  /\ ConnFree(c, "oumg")
  /\ LET uid == proc[p].uid
         b == CHOOSE v \in SeenOn(c, "oumg", oumg_balances, uid) : TRUE
     IN WriteOn(c, "oumg", uid, b + proc[p].g)
  /\ proc' = [proc EXCEPT ![p].pc = "rp_spent"]

\* UPDATE users SET rm_spent = COALESCE(rm_spent,0) + $1 WHERE id = $2
PurchaseAccumulateSpent(p, c) ==
  /\ proc[p].pc = "rp_spent"
  /\ ConnFree(c, "users")
  /\ LET uid == proc[p].uid
         b == IF conns[c].uid = uid /\ conns[c].spent # {}
              THEN CHOOSE v \in conns[c].spent : TRUE ELSE users[uid].rm_spent
     IN WriteOn(c, "spent", uid, NumericMyr(b * GramScale + Mul(proc[p].g, proc[p].price)))
  /\ proc' = [proc EXCEPT ![p].pc = "rp_commit"]

\* await query("COMMIT"), then the row of v_users_with_balances is returned.
PurchaseCommit(p, c) ==
  /\ proc[p].pc = "rp_commit"
  /\ rm_balances' = Publish(rm_balances, conns[c].uid, conns[c].rm)
  /\ oumg_balances' = Publish(oumg_balances, conns[c].uid, conns[c].oumg)
  /\ users' = PublishSpent(conns[c].uid, conns[c].spent)
  /\ UNCHANGED token_ops
  /\ conns' = [conns EXCEPT ![c] = IdleConn]
  /\ Finish(p, "ok", 0)

\* catch (e) { await query("ROLLBACK"); throw e; }
PurchaseRollback(p, c) ==
  /\ proc[p].pc = "rp_rollback"
  /\ conns' = [conns EXCEPT ![c] = IdleConn]
  /\ Finish(p, "insufficient RM credit", 0)
  /\ UNCHANGED db

PurchaseStep(p, c) ==
  \/ PurchaseBegin(p, c) \/ PurchaseUpsertUser(p, c)
  \/ PurchaseSelectForUpdate(p, c) \/ PurchaseDebitRm(p, c)
  \/ PurchaseCreditOumg(p, c) \/ PurchaseAccumulateSpent(p, c)
  \/ PurchaseCommit(p, c) \/ PurchaseRollback(p, c)

\* Purchases of one gram at 1 cent by a wallet that has its user and balance
\* rows, two at a time; the wallet is created and credited (positive amounts
\* only) while no purchase is running and every pool client is idle.
PurchaseGrams == {GramScale}
PurchasePrices == {1}
\* Bound on the purchases made; applied.sumOumg counts the grams asked so far.
MaxPurchases == 2
PurchaseRoom(g) == applied.sumOumg + g <= MaxPurchases * g
PoolIdle ==
  /\ \A c \in Conns : conns[c] = IdleConn
  /\ \A p \in Procs : proc[p].op = "recordPurchaseByWallet" => proc[p].pc = "done"

PurchaseNext ==
  /\ \/ /\ PoolIdle
        /\ \/ \E w \in ConcWallets : StartEnsureUser(1, w)
           \/ CallAdjustRm(1, ConcUsers, ConcDeltas)
           \/ EnsureStep(1)
           \/ AdjustRmInsert(1) \/ AdjustRmUpdate(1) \/ AdjustRmCommit(1)
        /\ UNCHANGED conns /\ UNCHANGED applied
     \/ \E p \in Procs, w \in ConcWallets, g \in PurchaseGrams, pr \in PurchasePrices :
          /\ \E i \in UserIdOfWallet(w) :
               i \in DOMAIN rm_balances /\ i \in DOMAIN oumg_balances
          /\ PurchaseRoom(g)
          /\ applied' = [applied EXCEPT !.sumOumg = @ + g]
          /\ \A q \in Procs : proc[q].op = "recordPurchaseByWallet" \/ Ready(q)
          /\ StartRecordPurchase(p, w, g, pr)
     \/ \E p \in Procs, c \in Conns : PurchaseStep(p, c) /\ UNCHANGED applied
  /\ UNCHANGED pricing
  /\ UNCHANGED backoffice
  /\ UNCHANGED <<http, chain_paused, contract_state, cproc>>

PurchaseSpec == Init /\ [][PurchaseNext]_vars

(* ------------------- userMint / userBurn write failures ----------------- *)
\* The four (three) statements userMint (userBurn) issues after the chain call,
\* through query(...) with no transaction around them.
UserWritePcs == {"um_debit", "um_credit", "um_spent", "um_log",
                 "ub_credit", "ub_debit", "ub_log"}

\* One of those statements is refused by the store (connection lost, constraint
\* violated): catch (err) { return res.status(500).json({ error: err.message }) }.
\* What a caught error undoes: nothing, the earlier statements were autocommitted.
UserWriteFails(p) ==
  /\ proc[p].pc \in UserWritePcs
  /\ Finish(p, "write failed", 0)
  /\ UNCHANGED db

\* The store as the request found it when the chain call returned: the ledger
\* rows of its user, kept as the reference for what a failed request may leave.
TrackBeforeWrites ==
  applied' =
    IF proc[1].pc \in {"um_chain", "ub_chain"} /\ proc'[1].pc \in UserWritePcs
    THEN [serialRm |-> BalanceOrZero(rm_balances, proc[1].uid),
          serialOumg |-> BalanceOrZero(oumg_balances, proc[1].uid),
          sumRm |-> users[proc[1].uid].rm_spent,
          sumOumg |-> Len(token_ops)]
    ELSE applied

\* Bound on what failed requests may pile up: no request starts beyond it.
PartialRoom ==
  \A u \in DOMAIN users :
     /\ users[u].rm_spent <= MaxBal
     /\ BalanceOrZero(rm_balances, u) <= MaxBal
     /\ BalanceOrZero(oumg_balances, u) <= MaxBal

\* userMint / userBurn requests one at a time on admin-credited balances, any
\* of their writes failing.
PartialNext ==
  /\ \/ \E w \in ConcWallets : StartEnsureUser(1, w)
     \/ CallAdjustRm(1, ConcUsers, ConcDeltas)
     \/ CallAdjustOumg(1, ConcUsers, ConcDeltas)
     \/ PartialRoom /\ CallUserMint(1, Wallets, UserGrams, UserAmounts, MaxOps)
     \/ PartialRoom /\ CallUserBurn(1, Wallets, BurnGrams, MaxOps)
     \/ EnsureStep(1) \/ AdjustStep(1)
     \/ UserMintStep(1) \/ UserBurnStep(1)
     \/ UserWriteFails(1)
  /\ TrackBeforeWrites
  /\ UNCHANGED pricing
  /\ UNCHANGED backoffice
  /\ UNCHANGED infra

PartialSpec == Init /\ [][PartialNext]_vars

(* --------------------------- ledger and log ---------------------------- *)
\* The admin credits committed so far, in cents (applied.sumRm), kept beside
\* the store as the reference for reconciling the balance with token_ops.
TrackCredits ==
  applied' =
    IF Commits(1) /\ proc[1].op = "adjustRmBalance"
    THEN [applied EXCEPT !.sumRm = @ + proc[1].amt]
    ELSE applied

\* Positive credits, buys and sells of one user, one call at a time, from the
\* empty store.
LogNext ==
  /\ \/ \E w \in ConcWallets : StartEnsureUser(1, w)
     \/ CallAdjustRm(1, ConcUsers, ConcDeltas)
     \/ CallBuyAndMint(1, ConcUsers, GramInputs, PriceInputs, MaxOps)
     \/ CallSellAndBurn(1, ConcUsers, GramInputs, PriceInputs, MaxOps)
     \/ EnsureStep(1)
     \/ AdjustRmInsert(1) \/ AdjustRmUpdate(1) \/ AdjustRmCommit(1)
     \/ BuyStep(1) \/ SellStep(1)
     \/ StatementFails(1)
  /\ TrackCredits
  /\ UNCHANGED pricing
  /\ UNCHANGED backoffice
  /\ UNCHANGED infra

LogSpec == Init /\ [][LogNext]_vars

(* --------------------------- pause / resume ---------------------------- *)
\* readAdminWallet: the x-admin-wallet header, lower-cased, or null.
AdminWallets == {"0xad", "0xop", "bad"}
ValidAdmin(w) == w \in {"0xad", "0xop"}

\* pauseContract / resumeContract: 401 without a valid admin wallet, else a
\* pool client is taken and the chain call comes first.
StartChainOp(p, op, w) ==
  /\ cproc[p].pc \in {"idle", "done"}
  /\ cproc' = [cproc EXCEPT ![p] =
       IF ValidAdmin(w)
       THEN [op |-> op, pc |-> "chain", out |-> w]
       ELSE [op |-> op, pc |-> "done", out |-> "401"]]
  /\ UNCHANGED <<chain_paused, contract_state>>

\* serverPause / serverResume: staticCall preflight, transaction, receipt. The
\* call fails (preflight revert, not mined, reverted) and the handler answers
\* 500, or the transaction is mined and the contract is paused / unpaused. A
\* pause of a paused contract and an unpause of a running one revert.
ChainCall(p, mined) ==
  /\ cproc[p].pc = "chain"
  /\ LET target == cproc[p].op = "pause"
     IN IF mined /\ chain_paused # target
        THEN /\ chain_paused' = target
             /\ cproc' = [cproc EXCEPT ![p].pc = "persist"]
        ELSE /\ UNCHANGED chain_paused
             /\ cproc' = [cproc EXCEPT ![p] = [@ EXCEPT !.pc = "done", !.out = "500"]]
  /\ UNCHANGED contract_state

\* BEGIN; UPDATE contract_state SET paused = TRUE / FALSE, updated_by = $1
\* WHERE id = 1; COMMIT
PersistPaused(p) ==
  /\ cproc[p].pc = "persist"
  /\ contract_state' = [paused |-> cproc[p].op = "pause", updated_by |-> cproc[p].out]
  /\ cproc' = [cproc EXCEPT ![p].pc = "audit"]
  /\ UNCHANGED chain_paused

\* insertTokenOpsAuditRow(...); res.json({ ok: true, action, txHash })
ChainOpAudit(p) ==
  /\ cproc[p].pc = "audit"
  /\ cproc' = [cproc EXCEPT ![p] = [@ EXCEPT !.pc = "done", !.out = "ok"]]
  /\ UNCHANGED <<chain_paused, contract_state>>

\* Pause and resume requests of two admins, both in flight.
PauseNext ==
  /\ \E p \in Procs :
       \/ \E op \in {"pause", "resume"}, w \in AdminWallets : StartChainOp(p, op, w)
       \/ \E mined \in BOOLEAN : ChainCall(p, mined)
       \/ PersistPaused(p)
       \/ ChainOpAudit(p)
  /\ UNCHANGED <<http, conns>>
  /\ UNCHANGED ledger
  /\ UNCHANGED pricing
  /\ UNCHANGED backoffice

PauseSpec == Init /\ [][PauseNext]_vars

(* ------------------------------ properties ------------------------------ *)
\* The step in which request p sends its response.
Finishes(p) == proc[p].pc \notin {"idle", "done"} /\ proc'[p].pc = "done"

\* r is x / GramScale rounded to the nearest integer, ties away from zero.
IsRounded(r, x) ==
  /\ 2 * Abs(r * GramScale - x) <= GramScale
  /\ 2 * Abs(r * GramScale - x) = GramScale => Abs(r) * GramScale > Abs(x)

\* C1: after any sequence of ledger operations run one at a time from the
\* empty store, every rm balance and every oumg balance is >= 0.
C1_NonNegativeBalances ==
  /\ \A u \in DOMAIN rm_balances : rm_balances[u] >= 0
  /\ \A u \in DOMAIN oumg_balances : oumg_balances[u] >= 0

\* C2: every step of a buyAndMint or sellAndBurn call either leaves the
\* committed balances and token_ops untouched, or is the successful end of the
\* call and publishes its debit, its credit and exactly one new token_ops row
\* together; a call that fails has changed nothing.
C2_AllOrNothing ==
  [][\A p \in Procs :
       (proc[p].op \in {"buyAndMint", "sellAndBurn"} /\ proc'[p] # proc[p]
          /\ proc[p].pc \notin {"idle", "done"})
       => IF proc'[p].pc = "done" /\ proc'[p].out = "ok"
          THEN LET u == proc[p].uid
                   sign == IF proc[p].op = "buyAndMint" THEN 1 ELSE -1
                   money == Mul(proc[p].g, proc[p].price)
               IN /\ IsRounded(rm_balances'[u],
                               rm_balances[u] * GramScale - sign * money)
                  /\ oumg_balances'[u] = oumg_balances[u] + sign * proc[p].g
                  /\ Len(token_ops') = Len(token_ops) + 1
                  /\ SubSeq(token_ops', 1, Len(token_ops)) = token_ops
                  /\ token_ops'[Len(token_ops')].user_id = u
                  /\ token_ops'[Len(token_ops')].grams = proc[p].g
                  /\ token_ops'[Len(token_ops')].op_type =
                       (IF sign = 1 THEN "BUY_MINT" ELSE "SELL_BURN")
          ELSE UNCHANGED <<rm_balances, oumg_balances, token_ops>>]_vars

\* C2 witness: a buyAndMint that failed on its second statement, after its
\* debit had been executed inside the transaction.
C2_FailedAfterDebit ==
  \E p \in Procs :
     /\ proc[p].op = "buyAndMint" /\ proc[p].pc = "done"
     /\ proc[p].out = "User OUMG balance missing"

AllFinished == \A p \in Procs : Ready(p)

C4_AdjustRejectsNegative ==
  [][\A p \in Procs :
       (proc[p].op \in {"adjustRmBalance", "adjustOumgBalance"} /\ Finishes(p)
          /\ proc[p].uid \in DOMAIN users)
       => LET u == proc[p].uid
              table == IF proc[p].op = "adjustRmBalance"
                       THEN rm_balances ELSE oumg_balances
              after == IF proc[p].op = "adjustRmBalance"
                       THEN rm_balances' ELSE oumg_balances'
              b == IF u \in DOMAIN table THEN table[u] ELSE 0
          IN IF b + proc[p].amt < 0
             THEN proc'[p].out # "ok" /\ after = table
             ELSE proc'[p].out = "ok" =>
                    after[u] = b + proc[p].amt /\ proc'[p].ret = b + proc[p].amt
    ]_vars

\* A buyAndMint call by p on a user holding both balance rows, asking for no
\* more than the rm balance covers (g * p <= B), sends its response.
BuyCovered(p) ==
  /\ proc[p].op = "buyAndMint" /\ Finishes(p)
  /\ proc[p].uid \in DOMAIN rm_balances \cap DOMAIN oumg_balances
  /\ Mul(proc[p].g, proc[p].price) <= rm_balances[proc[p].uid] * GramScale

C7_NoOverdraw ==
  /\ \A u \in DOMAIN rm_balances : rm_balances[u] >= 0
  /\ \A u \in DOMAIN oumg_balances : oumg_balances[u] >= 0

\* C8: in every accepted userMint request, whichever of grams and amountMyr it
\* supplied, the rm amount debited is grams x buy price at two decimals for
\* the grams credited.
C8_DebitIsGramsTimesPrice ==
  [][\A p \in Procs :
       (proc[p].pc = "um_debit" /\ proc'[p].pc # "um_debit"
          /\ proc[p].uid \in DOMAIN rm_balances)
       => IsRounded(rm_balances[proc[p].uid] - rm_balances'[proc[p].uid],
                    Mul(proc[p].g, proc[p].price))]_vars

\* C9: a mintOnchainController request rejected for insufficient rm balance
\* has not invoked serverMintOumg: no on-chain mint by the controller is left
\* without its BUY_MINT row and rm debit.
C9_RejectedBeforeChain ==
  [][\A p \in Procs :
       (proc[p].op = "mintOnchain" /\ Finishes(p)
          /\ proc'[p].out = "Insufficient RM balance")
       => proc[p].txh # ChainTx]_vars

\* C10: when serverMintOumg / serverBurnOumg throws, the request still leaves
\* a token_ops row for the attempt, with no transaction reference.
C10_FailedAttemptLogged ==
  [][\A p \in Procs :
       (proc[p].pc \in {"um_chain", "ub_chain", "mo_chain"}
          /\ proc'[p].out = "chain call failed")
       => /\ Len(token_ops') = Len(token_ops) + 1
          /\ token_ops'[Len(token_ops')].tx_hash = NoTx]_vars

\* The users rows holding wallet w after the step.
UserIdOfWalletAfter(w) == {i \in DOMAIN users' : users'[i].wallet = w}

\* C11: ensureUserByWallet is idempotent.  A call made when the wallet's user
\* and both balance rows already exist changes nothing in the store; every
\* call, whatever the letter case of its argument, returns the id of the one
\* users row holding the lower-cased wallet, and that id has an rm_balances
\* row and an oumg_balances row.
C11_EnsureIdempotent ==
  [][\A p \in Procs :
       (proc[p].op = "ensureUserByWallet" /\ proc'[p] # proc[p]
          /\ proc[p].pc \notin {"idle", "done"})
       => LET before == UserIdOfWallet("0xaa")
          IN /\ (\E i \in before : i \in DOMAIN rm_balances \cap DOMAIN oumg_balances)
                  => UNCHANGED db
             /\ Finishes(p) =>
                  /\ proc'[p].out = "ok"
                  /\ UserIdOfWalletAfter("0xaa") = {proc'[p].ret}
                  /\ before \subseteq {proc'[p].ret}
                  /\ \A i \in DOMAIN users' : users'[i].wallet = "0xaa"
                  /\ proc'[p].ret \in DOMAIN rm_balances' \cap DOMAIN oumg_balances'
    ]_vars

\* C11 witness: a later ensureUserByWallet call has returned user 1, whose rm
\* balance had been credited since the first call and is still there.
C11_EnsuredAgain ==
  /\ proc[1].op = "ensureUserByWallet" /\ proc[1].pc = "done"
  /\ proc[1].ret = 1
  /\ 1 \in DOMAIN rm_balances /\ rm_balances[1] = 1
  /\ 1 \in DOMAIN oumg_balances

\* C12: with ensureUserByWallet calls for one wallet in flight together, the
\* wallet never has more than one users row, and every call that has returned
\* returned the id of that row, which has its rm_balances and oumg_balances
\* row.
C12_EnsureConcurrent ==
  /\ Cardinality(UserIdOfWallet("0xaa")) <= 1
  /\ \A p \in Procs :
       (proc[p].op = "ensureUserByWallet" /\ proc[p].pc = "done")
       => /\ proc[p].out = "ok"
          /\ UserIdOfWallet("0xaa") = {proc[p].ret}
          /\ proc[p].ret \in DOMAIN rm_balances \cap DOMAIN oumg_balances

\* C12 witness: both processes have returned from ensureUserByWallet with the
\* same id.
C12_BothEnsured ==
  /\ \A p \in Procs :
       /\ proc[p].op = "ensureUserByWallet" /\ proc[p].pc = "done"
       /\ proc[p].ret = 1
  /\ DOMAIN users = {1}

\* C13: whenever no operation is mid-execution, every users row has its
\* rm_balances row and its oumg_balances row.
C13_UserHasBothRows ==
  AllFinished =>
    \A i \in DOMAIN users : i \in DOMAIN rm_balances \cap DOMAIN oumg_balances

HasCompleteSnapshot ==
  \E i \in DOMAIN price_snapshots :
     /\ price_snapshots[i].buy_myr_per_g # NoPrice
     /\ price_snapshots[i].sell_myr_per_g # NoPrice
StartsGetCurrent(p) ==
  /\ PriceReady(p)
  /\ pproc'[p] # pproc[p]
  /\ pproc'[p].op = "getCurrentMyrPerGram"

C15_ManualNeverFetches ==
  PRICE_MODE = "manual" => vendor_calls["getCurrentMyrPerGram"] = 0

\* C15 witness: in manual mode a read found only a legacy row without buy
\* and sell, and answered from the manual fallback it inserted.
C15_ManualFallbackServed ==
  /\ PRICE_MODE = "manual"
  /\ pproc[1].op = "getCurrentMyrPerGram" /\ pproc[1].pc = "done"
  /\ Len(price_snapshots) = 2
  /\ price_snapshots[1] = LegacyRow
  /\ price_snapshots[2].note = "manual-fallback"
  /\ pproc[1].ret.created_at = price_snapshots[2].created_at

\* r is n / d rounded to the nearest price unit.
NearestTo(r, n, d) == 2 * Abs(r * d - n) <= d
IsManualFallback(row) ==
  /\ row.source = "manual"
  /\ row.computed_myr_per_g = MANUAL_BASE
  /\ NearestTo(row.buy_myr_per_g, MANUAL_BASE * (10000 + BUY_BPS), 10000)
  /\ NearestTo(row.sell_myr_per_g, MANUAL_BASE * (10000 - SELL_BPS), 10000)

LastInserted == price_snapshots[Len(price_snapshots)]

\* C17: a getCurrentMyrPerGram call made when the row inserted last is
\* complete (the row of the latest setManualPrice, or any newer row)
\* returns from its first read with exactly that row's buy and sell; no
\* row inserted before it is returned as current.
C17_LatestWins ==
  [][\A p \in Procs :
       (/\ StartsGetCurrent(p)
        /\ price_snapshots # << >>
        /\ isCompleteSnap(LastInserted))
       => /\ pproc'[p].pc = "done"
          /\ pproc'[p].ret.buy_myr_per_g = LastInserted.buy_myr_per_g
          /\ pproc'[p].ret.sell_myr_per_g = LastInserted.sell_myr_per_g]_vars

\* The id the tie rule asks for: the highest id among the rows created last.
HighestLatestId ==
  CHOOSE i \in DOMAIN price_snapshots :
     /\ price_snapshots[i] \in getLatestSnapshot
     /\ \A j \in DOMAIN price_snapshots :
           price_snapshots[j] \in getLatestSnapshot => j <= i

\* C18: a getCurrentMyrPerGram call answered from the table returns the row
\* with the greatest created_at and, among rows with equal created_at, the
\* one with the higher id; so the answer is a function of the table and two
\* readers of the same table get the same price.
C18_TiesGoToHigherId ==
  [][\A p \in Procs :
       (/\ StartsGetCurrent(p)
        /\ price_snapshots # << >>
        /\ pproc'[p].pc = "done")
       => pproc'[p].ret
            = normalizeFromSnapshot(price_snapshots[HighestLatestId])]_vars

\* C19: price_snapshots is append-only. Every step of every price operation
\* (setManualPrice, getCurrentMyrPerGram in each tier, the cron,
\* listSnapshotsFull) leaves each row that was present in place with the
\* same field values and adds at most one row; a setManualPrice call that
\* is accepted adds exactly one row, tagged "manual", and returns it.
C19_AppendOnly ==
  [][/\ Len(price_snapshots') \in
          {Len(price_snapshots), Len(price_snapshots) + 1}
     /\ SubSeq(price_snapshots', 1, Len(price_snapshots)) = price_snapshots
     /\ \A p \in Procs :
          (/\ PriceReady(p)
           /\ pproc'[p] # pproc[p]
           /\ pproc'[p].op = "setManualPrice"
           /\ pproc'[p].out = "ok")
          => /\ Len(price_snapshots') = Len(price_snapshots) + 1
             /\ price_snapshots'[Len(price_snapshots')].source = "manual"
             /\ pproc'[p].ret = normalizeFromSnapshot(
                                   price_snapshots'[Len(price_snapshots')])]_vars

\* C19 witness: an override was stored after a legacy row, the legacy row is
\* still there as it was, and the history has since been listed.
C19_OverrideAppended ==
  /\ pproc[1].op = "listSnapshotsFull" /\ pproc[1].pc = "done"
  /\ Len(pproc[1].list) = 2
  /\ Len(price_snapshots) = 2
  /\ price_snapshots[1] = LegacyRow
  /\ price_snapshots[2].source = "manual"
  /\ price_snapshots[2].note = "pair"

OverrideIsCurrent ==
  /\ price_snapshots # << >>
  /\ LastInserted.source = "manual"
  /\ LastInserted.buy_myr_per_g = Myr(520)
  /\ LastInserted.sell_myr_per_g = Myr(480)

\* C20: once setManualPrice has stored the override buy 520 / sell 480, a
\* getCurrentMyrPerGram call returns buy 520, sell 480, base 500, spread 40
\* and spread_bps 800 (40 / 500 in basis points).
C20_OverrideReadBack ==
  [][\A p \in Procs :
       (StartsGetCurrent(p) /\ OverrideIsCurrent)
       => /\ pproc'[p].pc = "done"
          /\ pproc'[p].ret.buy_myr_per_g = Myr(520)
          /\ pproc'[p].ret.sell_myr_per_g = Myr(480)
          /\ pproc'[p].ret.price_myr_per_g = Myr(500)
          /\ pproc'[p].ret.spread_myr_per_g = Myr(40)
          /\ pproc'[p].ret.spread_bps = 800]_vars

\* C20 witness: the override was stored and then read back.
C20_OverrideServed ==
  /\ OverrideIsCurrent
  /\ LastInserted.note = "pair"
  /\ pproc[1].op = "getCurrentMyrPerGram" /\ pproc[1].pc = "done"
  /\ pproc[1].ret.buy_myr_per_g = Myr(520)
  /\ pproc[1].ret.spread_bps = 800

\* C20 as stated: the same read returns a spread_bps of about 80.
C20_SpreadBpsAbout80 ==
  [][\A p \in Procs :
       (StartsGetCurrent(p) /\ OverrideIsCurrent)
       => /\ pproc'[p].pc = "done"
          /\ pproc'[p].ret.buy_myr_per_g = Myr(520)
          /\ pproc'[p].ret.sell_myr_per_g = Myr(480)
          /\ pproc'[p].ret.spread_myr_per_g = Myr(40)
          /\ pproc'[p].ret.spread_bps \in 79 .. 81]_vars

\* C21: every price reported from a snapshot with buy b, sell s and base c
\* carries spread = b - s, signed, and spread_bps = (b - s) / c * 10000
\* rounded to the nearest integer when c > 0, and 0 otherwise.
C21_SignedSpread ==
  \A p \in Procs :
     (/\ pproc[p].op \in {"getCurrentMyrPerGram", "setManualPrice"}
      /\ pproc[p].pc = "done"
      /\ pproc[p].out = "ok")
     => LET r == pproc[p].ret
            diff == r.buy_myr_per_g - r.sell_myr_per_g
        IN /\ r.spread_myr_per_g = diff
           /\ IF r.price_myr_per_g > 0
              THEN NearestTo(r.spread_bps, diff * 10000, r.price_myr_per_g)
              ELSE r.spread_bps = 0

\* The row a createRedemption call of process p inserts in this step.
Inserts(p) ==
  /\ RequestAt(p, "createRedemption", "cr_insert")
  /\ Len(redemptions') = Len(redemptions) + 1
Inserted == redemptions'[Len(redemptions')]

\* C22: a GOLD redemption whose grams are positive and below the minimum bar
\* is stored as CASH, with a payout that is not null and a fee that is
\* positive, whether or not the price could be resolved.
C22_SmallGoldBecomesCash ==
  [][\A p \in Procs :
       (/\ Inserts(p)
        /\ rproc[p].asked = "GOLD"
        /\ rproc[p].grams < MIN_GOLD_BAR_G * GramScale)
       => /\ Inserted.kind = "CASH"
          /\ Inserted.payout_myr # NoAmount
          /\ Inserted.fee_myr > 0]_vars

\* The sell prices a price lookup could return now: those of the newest
\* snapshots that carry both sides.
CurrentSellPrices ==
  {s.sell_myr_per_g : s \in {t \in getLatestSnapshot : isCompleteSnap(t)}}

\* C23: every row createRedemption inserts is PENDING, its fee is grams x
\* current sell price x fee_bps / 10000 (at the column's two decimals); a CASH
\* row has payout = grams x sell price - fee and no minimum unit, a GOLD row
\* has no payout and the configured minimum unit.
C23_InsertedAtCurrentSellPrice ==
  [][\A p \in Procs :
       Inserts(p) =>
         LET r == Inserted
             g == rproc[p].grams
         IN /\ r.status = "PENDING"
            /\ r.fee_bps = FEE_BPS
            /\ \A sell \in CurrentSellPrices :
                  /\ NearestTo(r.fee_myr, g * sell * FEE_BPS,
                               GramScale * PriceUnit * 100)
                  /\ r.kind = "CASH" =>
                       NearestTo(r.payout_myr,
                                 g * sell * 100 - r.fee_myr * GramScale * PriceUnit,
                                 GramScale * PriceUnit)
            /\ r.kind = "CASH" => r.min_unit_g = NoAmount /\ r.payout_myr # NoAmount
            /\ r.kind = "GOLD" => /\ r.payout_myr = NoAmount
                                  /\ r.min_unit_g = MIN_GOLD_BAR_G * GramScale]_vars

TerminalStatus == {"APPROVED", "REJECTED", "COMPLETED"}
\* The patch statement of an updateRedemption call of process p runs.
Patches(p) ==
  /\ RequestAt(p, "updateRedemption", "ur_patch")
  /\ rproc'[p].pc = "done"

\* C24: a request is created PENDING, leaves PENDING only for APPROVED,
\* REJECTED or COMPLETED, and once in one of these three never changes status
\* again, whatever updateRedemption calls follow.
C24_TerminalIsFinal ==
  [][/\ \A i \in DOMAIN redemptions' \ DOMAIN redemptions :
          redemptions'[i].status = "PENDING"
     /\ \A i \in DOMAIN redemptions :
          /\ redemptions'[i].status # redemptions[i].status
               => redemptions'[i].status \in TerminalStatus
          /\ redemptions[i].status \in TerminalStatus
               => redemptions'[i].status = redemptions[i].status]_vars

\* C25: updateRedemption for an id that has no row fails with NotFound and
\* changes no row.
C25_UnknownIdNotFound ==
  [][\A p \in Procs :
       (Patches(p) /\ rproc[p].id \notin DOMAIN redemptions)
       => /\ rproc'[p].out = "NotFound"
          /\ redemptions' = redemptions]_vars

\* The row already carries what this call asks for: the same call ran before.
Repeats(p) ==
  /\ Patches(p)
  /\ rproc[p].id \in DOMAIN redemptions
  /\ redemptions[rproc[p].id].status = rproc[p].status
  /\ rproc[p].status \in TerminalStatus
  /\ rproc[p].audit # NoAudit => redemptions[rproc[p].id].audit = rproc[p].audit
RepeatPending ==
  \E p \in Procs :
     /\ RequestAt(p, "updateRedemption", "ur_patch")
     /\ rproc[p].id \in DOMAIN redemptions
     /\ rproc[p].status \in TerminalStatus
     /\ redemptions[rproc[p].id].status = rproc[p].status
     /\ redemptions[rproc[p].id].audit = rproc[p].audit
RepeatKeepsRow == [][\A p \in Procs : Repeats(p) => redemptions' = redemptions]_vars

\* C26: repeating a status transition (same id, same status, same payload)
\* leaves the row as the first call left it, and every call adds exactly one
\* entry to the audit trail.
C26_RepeatedTransition ==
  [][\A p \in Procs :
       /\ Repeats(p) => redemptions' = redemptions
       /\ (Patches(p) /\ rproc[p].id \in DOMAIN redemptions)
            => Len(admin_audit_logs') = Len(admin_audit_logs) + 1]_vars

AuditedActions == {"fundPreset", "postCreditUser", "updateRedemption"}
\* A back-office call of process p ends with success, having changed a row.
Succeeds(p) ==
  /\ rproc[p].pc \notin {"idle", "done"}
  /\ rproc'[p].pc = "done"
  /\ rproc'[p].op \in AuditedActions
  /\ rproc'[p].out = "ok"
  /\ rproc'[p].ret # 0

\* C27: every successful administrative or value-moving action (an admin
\* credit, a redemption status transition) appends at least one entry to the
\* audit trail.
C27_EveryActionAudited ==
  [][\A p \in Procs :
       Succeeds(p) => Len(admin_audit_logs') > Len(admin_audit_logs)]_vars

\* A fundPreset or postCreditUser call of process p is under way.
Crediting(p) ==
  /\ rproc[p].op \in {"fundPreset", "postCreditUser"}
  /\ rproc[p].pc \notin {"idle", "done"}

\* The rm balance of user u in table t, a missing row counting as 0.
RmOf(t, u) == IF u \in DOMAIN t THEN t[u] ELSE 0
BalanceMoves ==
  \E u \in DOMAIN rm_balances' : RmOf(rm_balances', u) # RmOf(rm_balances, u)

\* C28: the balance change of fundPreset or postCreditUser and its audit
\* entry become durable together: a balance moves exactly in the step that
\* appends the audit entry of a non-zero credit, so that no committed state has
\* one without the other.
C28_BalanceAndAuditTogether ==
  [][\A p \in Procs :
       Crediting(p) =>
         (BalanceMoves <=> (/\ rproc[p].amt # 0
                            /\ admin_audit_logs' # admin_audit_logs))]_vars

\* A credit request ended in failure although a balance of its wallet's user
\* has been changed by it and no audit entry describes the change.
UnauditedCredit ==
  \E p \in Procs :
     /\ rproc[p].op \in {"fundPreset", "postCreditUser"}
     /\ rproc[p].pc = "done" /\ rproc[p].out = "insert failed"
     /\ admin_audit_logs = << >>
     /\ \E u \in DOMAIN rm_balances : rm_balances[u] # 0

\* A credit function is entered by process p in this step.
EntersCredit(p) ==
  /\ Ready(p)
  /\ proc'[p] # proc[p]
  /\ proc'[p].op \in {"creditRmByWallet", "creditUserByWallet"}

C29_LogRowImmutable ==
  [][\A i \in DOMAIN token_ops :
       /\ i \in DOMAIN token_ops'
       /\ [token_ops'[i] EXCEPT !.tx_hash = NoTx]
            = [token_ops[i] EXCEPT !.tx_hash = NoTx]
       /\ token_ops'[i].tx_hash # token_ops[i].tx_hash
            => token_ops[i].tx_hash = NoTx]_vars

\* The same, with mint-onchain as the only caller of updateTokenOpTxHash.
AttachedOnceByMintOnchain ==
  [][\A i \in DOMAIN token_ops :
       \/ proc'[1].op = "updateTokenOpTxHash"
       \/ /\ i \in DOMAIN token_ops'
          /\ [token_ops'[i] EXCEPT !.tx_hash = NoTx]
               = [token_ops[i] EXCEPT !.tx_hash = NoTx]
          /\ token_ops'[i].tx_hash # token_ops[i].tx_hash
               => token_ops[i].tx_hash = NoTx]_vars

\* The two credit functions alone refuse a non-positive amount untouched.
CreditFunctionsReject ==
  [][\A p \in Procs :
       (EntersCredit(p) /\ proc'[p].amt <= 0)
       => /\ proc'[p].pc = "done" /\ proc'[p].out # "ok"
          /\ UNCHANGED <<users, rm_balances, oumg_balances>>]_vars
\* fundPreset has answered success for a negative amount and a balance is
\* below zero.
NegativeFundApplied ==
  \E p \in Procs :
     /\ rproc[p].op = "fundPreset" /\ rproc[p].pc = "done" /\ rproc[p].out = "ok"
     /\ \E i \in DOMAIN admin_audit_logs : admin_audit_logs[i].amount_myr < 0
     /\ \E u \in DOMAIN rm_balances : rm_balances[u] < 0

\* What a fetchWithTimeout call of process p has done is within its budget,
\* and a finished call has a response or rethrows after its last attempt.
FetchWithinBudget(p) ==
  /\ http[p].attempts <= http[p].budget + 1
  /\ http[p].pc = "done" =>
       \/ http[p].out \in {"ok", "http error"}
       \/ /\ http[p].out = "throws"
          /\ http[p].err \in {"network", "aborted"}
          /\ http[p].attempts = http[p].budget + 1

\* C31: fetchWithTimeout makes at most retries + 1 attempts, each ended by the
\* timeout if nothing else ends it, and then terminates with the first
\* response or the last error.
C31_BoundedFetch ==
  /\ [](\A p \in Procs : FetchWithinBudget(p))
  /\ \A p \in Procs : (http[p].pc = "pending") ~> (http[p].pc = "done")
\* Every attempt of a call with the largest budget was aborted by the timer.
C31_ExhaustedByTimeouts ==
  \E p \in Procs :
     /\ http[p].pc = "done" /\ http[p].out = "throws" /\ http[p].err = "aborted"
     /\ http[p].budget = MaxRetries
     /\ http[p].attempts = MaxRetries + 1

\* The sellAndBurn of process p commits the grams bought by the buyAndMint
\* that committed just before it.
SellsBack(p) ==
  /\ proc[p].op = "sellAndBurn"
  /\ Commits(p)
  /\ applied.sumOumg = proc[p].g

AfterDebit(p) ==
  IF proc[p].op = "buyAndMint"
  THEN rm_balances[proc[p].uid] * GramScale - Mul(proc[p].g, proc[p].price)
  ELSE (oumg_balances[proc[p].uid] - proc[p].g) * GramScale

\* Call p is a buyAndMint or sellAndBurn whose debit exceeds what is committed.
WouldOverdraw(p) ==
  /\ proc[p].op \in {"buyAndMint", "sellAndBurn"}
  /\ proc[p].uid \in DOMAIN rm_balances
  /\ proc[p].uid \in DOMAIN oumg_balances
  /\ 2 * AfterDebit(p) <= -GramScale

\* C33: with buyAndMint and sellAndBurn calls of one user interleaved
\* statement by statement (positive credits aside), no committed rm or oumg
\* balance is negative, and a call that ends while its debit exceeds the
\* committed balance ends in error with the store unchanged.
C33_NoNegativeCommit ==
  /\ [](\A u \in ConcUsers :
          /\ u \in DOMAIN rm_balances => rm_balances[u] >= 0
          /\ u \in DOMAIN oumg_balances => oumg_balances[u] >= 0)
  /\ [][\A p \in Procs :
          (Finishes(p) /\ WouldOverdraw(p))
          => proc'[p].out # "ok" /\ UNCHANGED db]_vars

\* C33 witness: two buyAndMint calls of 1 cent each were in flight together on
\* a balance of 1 cent; one committed, the other was refused, the balance is 0.
C33_SecondBuyRefused ==
  /\ proc[1].op = "buyAndMint" /\ proc[1].pc = "done" /\ proc[1].out = "ok"
  /\ proc[2].op = "buyAndMint" /\ proc[2].pc = "done"
  /\ proc[2].out = "Insufficient RM balance"
  /\ Len(token_ops) = 1
  /\ rm_balances[1] = 0 /\ oumg_balances[1] = 1

\* C34: with recordPurchaseByWallet calls of one wallet interleaved, every
\* statement issued through the shared pool, the rm balance is never negative
\* and two calls that were both in flight on a balance covering only one of
\* them do not both succeed.
C34_OneDebitWins ==
  /\ \A u \in DOMAIN rm_balances : rm_balances[u] >= 0
  /\ \A c \in Conns : \A b \in conns[c].rm : b >= 0

\* The two purchases of 1 cent have both answered success on a balance of
\* 1 cent: the committed balance is -1 cent and two grams were credited.
C34_BothPurchasesDebited ==
  /\ \A p \in Procs :
       /\ proc[p].op = "recordPurchaseByWallet"
       /\ proc[p].pc = "done" /\ proc[p].out = "ok"
  /\ rm_balances[1] = -1
  /\ oumg_balances[1] = 2 * GramScale

\* C35: a userMint or userBurn request in which one of the ledger writes fails
\* leaves the user's rm balance, oumg balance, rm_spent and the token_ops log
\* as they were before its first write.
C35_WritesAllOrNothing ==
  [][(proc[1].pc \in UserWritePcs /\ proc'[1].pc = "done"
        /\ proc'[1].out = "write failed")
     => /\ BalanceOrZero(rm_balances', proc[1].uid) = applied.serialRm
        /\ BalanceOrZero(oumg_balances', proc[1].uid) = applied.serialOumg
        /\ users'[proc[1].uid].rm_spent = applied.sumRm
        /\ Len(token_ops') = applied.sumOumg]_vars

\* A userMint request answered 500 after its token_ops insert failed: the rm
\* debit and the oumg credit are in the store, the log has no row for them.
C35_DebitedWithoutLog ==
  /\ proc[1].op = "userMint" /\ proc[1].pc = "done" /\ proc[1].out = "write failed"
  /\ Len(token_ops) = applied.sumOumg
  /\ \E u \in DOMAIN rm_balances :
       /\ rm_balances[u] < applied.serialRm
       /\ oumg_balances[u] > applied.serialOumg

\* The vendor answered with a buying and a selling quote.
BothSides(q) ==
  /\ q # VendorThrows
  /\ q.myr_per_oz_buying # NoPrice /\ q.myr_per_oz_selling # NoPrice

\* Request p takes a step of getCurrentMyrPerGram.
Resolves(p) ==
  /\ pproc'[p] # pproc[p]
  /\ pproc'[p].op = "getCurrentMyrPerGram"

RowsOf(u, type) ==
  {i \in DOMAIN token_ops :
     token_ops[i].user_id = u /\ token_ops[i].op_type = type}

RECURSIVE SumGrams(_), SumAmount(_)
SumGrams(rows) ==
  IF rows = {} THEN 0
  ELSE LET i == CHOOSE j \in rows : TRUE
       IN token_ops[i].grams + SumGrams(rows \ {i})
SumAmount(rows) ==
  IF rows = {} THEN 0
  ELSE LET i == CHOOSE j \in rows : TRUE
       IN token_ops[i].amount_myr + SumAmount(rows \ {i})

\* What the log says user u holds: grams bought minus grams sold, and credits
\* minus amounts bought plus amounts sold (cents).
LoggedOumg(u) == SumGrams(RowsOf(u, "BUY_MINT")) - SumGrams(RowsOf(u, "SELL_BURN"))
LoggedRm(u) ==
  applied.sumRm - SumAmount(RowsOf(u, "BUY_MINT")) + SumAmount(RowsOf(u, "SELL_BURN"))

\* Every BUY_MINT row of u records a grams x price that is a whole number of cents.
WholeCentBuys(u) ==
  \A i \in RowsOf(u, "BUY_MINT") :
     Mul(token_ops[i].grams, token_ops[i].price_myr_per_g) % GramScale = 0

C38_ReturnsAStoredRow ==
  [][\A p \in Procs :
       (/\ pproc'[p] # pproc[p]
        /\ pproc'[p].op = "getCurrentMyrPerGram"
        /\ pproc'[p].pc = "done")
       => /\ pproc'[p].out = "ok"
          /\ pproc'[p].ret.buy_myr_per_g # NoPrice
          /\ pproc'[p].ret.sell_myr_per_g # NoPrice
          /\ \E i \in DOMAIN price_snapshots' :
               /\ price_snapshots'[i].buy_myr_per_g = pproc'[p].ret.buy_myr_per_g
               /\ price_snapshots'[i].sell_myr_per_g = pproc'[p].ret.sell_myr_per_g]_vars

\* C38 witness: request 1 found the table empty, request 2 stored an admin
\* price meanwhile, and request 1 returned the fallback row it then inserted.
C38_ReturnedBesideOverride ==
  /\ pproc[1].op = "getCurrentMyrPerGram" /\ pproc[1].pc = "done"
  /\ pproc[2].op = "setManualPrice" /\ pproc[2].pc = "done" /\ pproc[2].out = "ok"
  /\ Len(price_snapshots) = 2
  /\ price_snapshots[2].note = "manual-fallback"
  /\ pproc[1].ret.buy_myr_per_g = price_snapshots[2].buy_myr_per_g
  /\ pproc[1].ret.sell_myr_per_g = price_snapshots[2].sell_myr_per_g

\* C39: whenever no pauseContract or resumeContract request is in flight,
\* contract_state.paused equals the paused state of the contract on chain.
C39_FlagMirrorsChain ==
  (\A p \in Procs : cproc[p].pc \in {"idle", "done"})
  => contract_state.paused = chain_paused

\* A pause and a resume both answered ok, the contract is running and the
\* stored flag says paused.
C39_FlagStuckPaused ==
  /\ cproc[1].op = "pause" /\ cproc[1].pc = "done" /\ cproc[1].out = "ok"
  /\ cproc[2].op = "resume" /\ cproc[2].pc = "done" /\ cproc[2].out = "ok"
  /\ chain_paused = FALSE
  /\ contract_state.paused = TRUE

====
